---- MODULE Spec2Model ----
(***************************************************************************)
(* Aggregation-and-calculation engine of the tax form pipeline             *)
(* (src/tasks/mapping.py, driven by src/main_flow.py).                     *)
(*                                                                         *)
(* Text is a sequence of one-character strings, so that trimming,          *)
(* character removal and numeric parsing are computed, not assumed.        *)
(* Money is an integer number of cents.                                    *)
(***************************************************************************)
EXTENDS Integers, Sequences, FiniteSets, TLC

VARIABLES
    docs,                       \* the run's documents, in input order (DocumentRecord each)
    target_form,                \* form type being built
    populated_structures_cache, \* dependency cache: form type -> structure
    pc,                         \* position inside create_populated_gemini_structure
    doc_idx,                    \* next relevant document of the aggregation loop
    final_aggregated,           \* _aggregate_data_for_form: key -> aggregated value
    all_values_for_modal_keys,  \* _aggregate_data_for_form: key -> <<value, source>> candidates
    aggregated_lists,           \* _aggregate_data_for_form: key -> list items
    proprietor_data,            \* _aggregate_data_for_form: key -> candidates
    mapped_gemini_data,         \* output of _map_aggregated_to_gemini_fields
    gemini_structure,           \* field_name -> [value, sources, sources_null]
    error,                      \* exception raised by the calculation step, or "none"
    prop_col_map,               \* Schedule E aggregation: property id -> column letter
    next_col_idx,               \* Schedule E aggregation: number of columns assigned
    target_forms,               \* driver: the forms the run requires
    ordered_target_forms,       \* driver: the target forms in processing order
    form_idx,                   \* driver: position of the form loop
    results,                    \* driver: form type -> [status, error]
    flow_status,                \* driver: status of the run summary
    blank_fields,               \* form type -> state found of its blank fields file
    final_result,               \* driver: the returned run summary, empty before return
    source_document_paths,      \* driver: the input paths, each existing or not
    path_idx,                   \* driver: position of the loops over the paths
    valid_paths,                \* driver: the paths that exist
    classification_futures,     \* driver: outcome of each classification task
    doc_path_to_type,           \* driver: path -> document type
    extraction_errors,          \* driver: error key -> message
    extracted_by_type,          \* driver: aggregated_data_by_type as the extraction loop builds it
    extraction_results         \* driver: path -> what the extractor returned

\* The variables of the driver (tax_form_automation_flow)
\* The variables of steps 1 and 2: classification and extraction
intakeVars == <<source_document_paths, path_idx, valid_paths, classification_futures,
                doc_path_to_type, extraction_errors, extracted_by_type,
                extraction_results>>

flowVars == <<target_forms, ordered_target_forms, form_idx, results, flow_status,
              blank_fields, final_result, intakeVars>>

vars == <<docs, target_form, populated_structures_cache, pc, doc_idx,
          final_aggregated, all_values_for_modal_keys, aggregated_lists,
          proprietor_data, mapped_gemini_data, gemini_structure, error,
          prop_col_map, next_col_idx, flowVars>>

----------------------------------------------------------------------------
(* Bounds *)

MaxDocs == 3

\* Documents of a Schedule E run: enough for a fourth property
MaxSchedEDocs == 4

\* Documents of a run of the driver
MaxFlowDocs == 2

\* Input paths of a run, and pages of a document
MaxPaths == 2
MaxPages == 1

----------------------------------------------------------------------------
(* Values *)

EmptyMap == [k \in {} |-> TRUE]

\* A raw extracted value: JSON null or a string.
Null == [null |-> TRUE, s |-> <<>>]
Str(s) == [null |-> FALSE, s |-> s]

\* A value held by an aggregated key or a form field.
NullV == [t |-> "null", n |-> 0, s |-> <<>>, items |-> <<>>]
NumV(n) == [t |-> "num", n |-> n, s |-> <<>>, items |-> <<>>]
StrV(s) == [t |-> "str", n |-> 0, s |-> s, items |-> <<>>]
BoolV(b) == [t |-> "bool", n |-> IF b THEN 1 ELSE 0, s |-> <<>>, items |-> <<>>]
ListV(items) == [t |-> "list", n |-> 0, s |-> <<>>, items |-> items]

Cents(dollars) == 100 * dollars

----------------------------------------------------------------------------
(* Text helpers *)

Whitespace == {" "}
Digits == {"0", "1", "2", "3", "4", "5", "6", "7", "8", "9"}

DigitValue(c) ==
    CASE c = "0" -> 0 [] c = "1" -> 1 [] c = "2" -> 2 [] c = "3" -> 3
      [] c = "4" -> 4 [] c = "5" -> 5 [] c = "6" -> 6 [] c = "7" -> 7
      [] c = "8" -> 8 [] c = "9" -> 9

RECURSIVE LStrip(_)
LStrip(s) ==
    IF s # <<>> /\ Head(s) \in Whitespace THEN LStrip(Tail(s)) ELSE s

RECURSIVE RStrip(_)
RStrip(s) ==
    IF s # <<>> /\ s[Len(s)] \in Whitespace
    THEN RStrip(SubSeq(s, 1, Len(s) - 1))
    ELSE s

\* str.strip()
Strip(s) == RStrip(LStrip(s))

\* re.sub(r'[<chars>]', '', s)
RECURSIVE RemoveChars(_, _)
RemoveChars(s, chars) ==
    IF s = <<>> THEN <<>>
    ELSE IF Head(s) \in chars THEN RemoveChars(Tail(s), chars)
    ELSE <<Head(s)>> \o RemoveChars(Tail(s), chars)

RECURSIVE DigitsValue(_)
DigitsValue(s) ==
    IF s = <<>> THEN 0
    ELSE 10 * DigitsValue(SubSeq(s, 1, Len(s) - 1)) + DigitValue(s[Len(s)])

AllDigits(s) == s # <<>> /\ \A i \in 1..Len(s) : s[i] \in Digits

SignedCents(dollars, negative) ==
    IF negative THEN 0 - Cents(dollars) ELSE Cents(dollars)

UnsignedLiteral(body, negative) ==
    IF AllDigits(body)
    THEN [ok |-> TRUE, n |-> SignedCents(DigitsValue(body), negative)]
    ELSE [ok |-> FALSE, n |-> 0]

\* An optional sign followed by digits only
SignedLiteral(t) ==
    LET signed == t # <<>> /\ Head(t) \in {"-", "+"}
    IN  UnsignedLiteral(IF signed THEN Tail(t) ELSE t, signed /\ Head(t) = "-")

\* Decimal(text) / float(text) on integer literals: surrounding whitespace is
\* ignored, an optional sign is followed by digits only; anything else raises
\* (ok = FALSE).  The amount is returned in cents.
NumericLiteral(text) == SignedLiteral(Strip(text))

\* _clean_string: None stays None, anything else is str(value).strip()
_clean_string(value) ==
    IF value.null THEN Null ELSE Str(Strip(value.s))

\* Numeric parse of the SUM branch: Decimal(re.sub(r'[$,()]', '', cleaned_value))
SumParse(cleaned) == NumericLiteral(RemoveChars(cleaned, {"$", ",", "(", ")"}))

----------------------------------------------------------------------------
(* Per-form aggregation rules (create_populated_gemini_structure) *)

Form1040 == "1040"
FormSchedC == "SchedC"
FormScheduleA == "Schedule A"
FormSchedE == "SchedE"
Form1040SE == "1040-SE"
FormSchedule1 == "Schedule 1"
FormSchedule2 == "Schedule 2"
FormSchedule3 == "Schedule 3"
Form2441 == "Form 2441"
Form8812 == "Form 8812"

relevant_doc_types(form) ==
    CASE form = Form1040 -> <<"W-2">>
      [] form = FormSchedC -> <<"Profit and Loss Statement", "1099-NEC", "Invoice",
                                "Receipt", "Insurance Policy">>
      [] form = FormSchedE -> <<"Cash Flow Statement", "Profit and Loss Statement">>
      [] form = Form1040SE -> <<"Profit and Loss Statement", "W-2">>
      [] form = FormSchedule1 ->
            <<"Alimony Agreement", "Unemployment Statement", "Gambling Winnings Form",
              "Student Loan Interest Statement", "HSA Contribution Form",
              "IRA Contribution Form">>
      [] form = FormSchedule2 -> <<"Form 6251 Data", "Form 8962 Data">>
      [] form = FormSchedule3 -> <<"Form 4868", "W-2", "Form 1099", "Form 2439">>
      [] form = Form2441 -> <<"Child Care Statement", "W-2">>
      [] form = Form8812 -> <<"W-2">>
      [] form = FormScheduleA ->
            <<"Medical Bill", "Property Tax Statement",
              "Mortgage Interest Statement (1098)", "Charitable Donation Receipt">>

summable_keys(form) ==
    CASE form = Form1040 ->
            {"WagesTipsOtherComp", "FederalIncomeTaxWithheld", "StateWagesTipsEtc",
             "StateIncomeTax", "TotalTaxableInterest", "TotalOrdinaryDividends",
             "TotalTaxableIRADistributions", "TotalTaxablePensionsAnnuities",
             "TotalTaxableSocialSecurity", "Aggregated1099Withholding",
             "AggregatedOtherWithholding", "EstimatedTaxPaymentsMade"}
      [] form = FormSchedC ->
            {"TotalRevenue", "NonemployeeCompensation", "GrossReceiptsOrSales",
             "ReturnsAllowances", "CostOfGoodsSold", "AdvertisingExpense",
             "CarTruckExpense", "CommissionsFeesExpense", "ContractLaborExpense",
             "DepletionExpense", "DepreciationExpense", "EmployeeBenefitExpense",
             "InsuranceExpense", "InterestMortgageExpense", "InterestOtherExpense",
             "LegalProfessionalExpense", "OfficeExpense", "PensionProfitSharingExpense",
             "RentLeaseVehicleExpense", "RentLeaseOtherExpense",
             "RepairsMaintenanceExpense", "SuppliesExpense", "TaxesLicensesExpense",
             "TravelExpense", "MealsExpense", "UtilitiesExpense", "WagesExpense",
             "OtherExpenseAmount"}
      [] form = Form1040SE -> {"NetIncomeLoss", "WagesTipsOtherComp", "SocialSecurityWages"}
      [] form = FormSchedule1 ->
            {"AlimonyReceived", "TaxableRefundsCreditsOffsets", "UnemploymentCompensation",
             "OtherIncomeAmount", "EducatorExpenses", "HSA_DeductionAmount",
             "MovingExpensesAmount", "SE_HealthInsuranceDeductionAmount",
             "SEP_SIMPLE_QualifiedPlanDeduction", "AlimonyPaid", "IRA_DeductionAmount",
             "StudentLoanInterestDeduction"}
      [] form = FormSchedule2 ->
            {"AlternativeMinimumTaxAmount", "ExcessAdvancePTCRepaymentAmount"}
      [] form = FormSchedule3 ->
            {"AmountPaidWithExtension", "ExcessSocialSecurityTaxWithheld",
             "CreditFromForm2439"}
      [] form = Form2441 -> {"ChildCareExpenses", "EmployerProvidedDependentCareBenefits"}
      [] form = Form8812 -> {}
      [] form = FormScheduleA ->
            {"MedicalExpenses", "StateAndLocalTaxes", "RealEstateTaxes",
             "PersonalPropertyTaxes", "HomeMortgageInterest", "InvestmentInterest",
             "CharitableContributionsCash", "CharitableContributionsNonCash",
             "CasualtyTheftLossAmount", "OtherItemizedDeductionAmount"}

modal_keys(form) ==
    CASE form = Form1040 ->
            {"EmployeeName", "EmployeeSSN", "TaxYear", "EmployeeAddress", "FilingStatus"}
      [] form = FormSchedC ->
            {"BusinessName", "PrincipalBusinessActivity", "EIN", "BusinessAddress",
             "BusinessCityStateZip"}
      [] form = Form1040SE -> {"EmployeeName", "EmployeeSSN"}
      [] form = FormSchedule1 -> {"AlimonyRecipientSSN"}
      [] form = Form2441 -> {"DependentCareProviderName", "ProviderAddress", "ProviderTaxID"}
      [] form \in {FormSchedE, FormSchedule2, FormSchedule3, Form8812, FormScheduleA} -> {}

list_keys(form) ==
    CASE form = Form1040 ->
            {"EmployerName", "EmployerEIN", "DependentName", "DependentSSN",
             "DependentRelationship"}
      [] form = FormSchedC -> {"OtherExpenseDescription"}
      [] form = FormSchedule1 -> {"OtherIncomeDescription"}
      [] form = Form2441 -> {"DependentNameForCare", "DependentSSNForCare"}
      [] form = Form8812 -> {"DependentName", "DependentSSN", "DependentRelationship"}
      [] form = FormScheduleA -> {"OtherItemizedDeductionDescription"}
      [] form \in {FormSchedE, Form1040SE, FormSchedule2, FormSchedule3} -> {}

proprietor_keys == {"EmployeeName", "EmployeeSSN"}

----------------------------------------------------------------------------
(* Document grouping (main_flow) *)

\* aggregated_data_by_type[doc_type]: the documents of one type, in input order
aggregated_data_by_type(ds, doc_type) ==
    SelectSeq(ds, LAMBDA d : d.type = doc_type)

\* The documents _aggregate_data_for_form visits, in its iteration order:
\* relevant types in list order, documents of a type in input order.
RECURSIVE DocsOfTypes(_, _)
DocsOfTypes(ds, types) ==
    IF types = <<>> THEN <<>>
    ELSE aggregated_data_by_type(ds, Head(types)) \o DocsOfTypes(ds, Tail(types))

RelevantDocs(ds, form) == DocsOfTypes(ds, relevant_doc_types(form))

----------------------------------------------------------------------------
(* _aggregate_data_for_form *)

Get(map, key, default) == IF key \in DOMAIN map THEN map[key] ELSE default

Put(map, key, value) == (key :> value) @@ map

\* A plausible slip: an unparseable value replaces the running record.
SumBranchResetOnError(final, key, cleaned, source) ==
    LET agg_info == Get(final, key, [value |-> NumV(0), sources |-> {}, is_list |-> FALSE])
        parsed == SumParse(cleaned)
    IN  IF parsed.ok
        THEN Put(final, key, [value |-> NumV(agg_info.value.n + parsed.n),
                              sources |-> agg_info.sources \cup {source},
                              is_list |-> FALSE])
        ELSE Put(final, key, [value |-> NumV(0), sources |-> {}, is_list |-> FALSE])

\* The SUM branch for one cleaned value: setdefault, then add inside the try.
SumBranch(final, key, cleaned, source) ==
    LET agg_info == Get(final, key, [value |-> NumV(0), sources |-> {}, is_list |-> FALSE])
        parsed == SumParse(cleaned)
    IN  IF parsed.ok
        THEN Put(final, key, [value |-> NumV(agg_info.value.n + parsed.n),
                              sources |-> agg_info.sources \cup {source},
                              is_list |-> FALSE])
        ELSE Put(final, key, agg_info)

\* The MODE branch: the candidate is recorded with its source.
ModalBranch(candidates, cleaned, source) == Append(candidates, <<cleaned, source>>)

\* A plausible slip: a value already collected is not collected again.
ListBranchDedup(items, cleaned, source) ==
    IF \E i \in 1..Len(items) : items[i].value = cleaned THEN items
    ELSE Append(items, [value |-> cleaned, source |-> source])

\* The LIST branch: the item is kept with its own source.
ListBranch(items, cleaned, source) ==
    Append(items, [value |-> cleaned, source |-> source])

\* Body of the loop over document_data.items() for one key.
ProcessEntry(acc, form, key, value, source, is_proprietor_doc) ==
    LET cleaned == _clean_string(value)
    IN  IF cleaned.null THEN acc
        ELSE IF key \in summable_keys(form)
        THEN [acc EXCEPT !.final = SumBranch(acc.final, key, cleaned.s, source)]
        ELSE IF key \in modal_keys(form)
        THEN [acc EXCEPT !.modal[key] = ModalBranch(@, cleaned.s, source)]
        ELSE IF key \in list_keys(form)
        THEN [acc EXCEPT !.lists[key] = ListBranch(@, cleaned.s, source)]
        ELSE IF key \in proprietor_keys /\ is_proprietor_doc
        THEN [acc EXCEPT !.prop =
                 Put(acc.prop, key, ModalBranch(Get(acc.prop, key, <<>>), cleaned.s, source))]
        ELSE acc

RECURSIVE ProcessKeys(_, _, _, _)
ProcessKeys(acc, form, doc, keys) ==
    IF keys = {} THEN acc
    ELSE LET key == CHOOSE k \in keys : TRUE
             is_proprietor_doc == \E p \in proprietor_keys : p \in DOMAIN doc.data
         IN  ProcessKeys(ProcessEntry(acc, form, key, doc.data[key], doc.source,
                                      is_proprietor_doc),
                         form, doc, keys \ {key})

\* One iteration of "for document_data in aggregated_data_by_type[doc_type]".
ProcessDocument(acc, form, doc) == ProcessKeys(acc, form, doc, DOMAIN doc.data)

Count(values, v) == Cardinality({i \in 1..Len(values) : values[i] = v})

\* A plausible slip: among equally frequent values the last one wins.
MostCommonLastOnTie(values) ==
    LET i == CHOOSE i \in 1..Len(values) :
                /\ \A j \in 1..Len(values) : Count(values, values[j]) <= Count(values, values[i])
                /\ \A j \in (i + 1)..Len(values) : Count(values, values[j]) < Count(values, values[i])
    IN  values[i]

\* Counter(values).most_common(1)[0][0]: the most frequent value, the one
\* counted first among equally frequent ones.
MostCommon(values) ==
    LET i == CHOOSE i \in 1..Len(values) :
                /\ \A j \in 1..Len(values) : Count(values, values[j]) <= Count(values, values[i])
                /\ \A j \in 1..(i - 1) : Count(values, values[j]) < Count(values, values[i])
    IN  values[i]

\* Finalisation of a modal or proprietor key from its candidates.
ModalResult(value_source_list) ==
    LET values == [i \in 1..Len(value_source_list) |-> value_source_list[i][1]]
        most_common_value == MostCommon(values)
    IN  [value |-> StrV(most_common_value),
         sources |-> {value_source_list[i][2] : i \in
                         {j \in 1..Len(value_source_list) :
                             value_source_list[j][1] = most_common_value}},
         is_list |-> FALSE]

\* Post-aggregation processing: modal keys, proprietor keys, list keys.
Finalize(acc) ==
    LET modalSet == {k \in DOMAIN acc.modal : acc.modal[k] # <<>>}
        propSet == {k \in DOMAIN acc.prop : acc.prop[k] # <<>>}
        listSet == {k \in DOMAIN acc.lists : acc.lists[k] # <<>>}
        afterModal == [k \in modalSet |-> ModalResult(acc.modal[k])] @@ acc.final
        afterProp == [k \in propSet |-> ModalResult(acc.prop[k])] @@ afterModal
    IN  [k \in listSet |-> [value |-> ListV(acc.lists[k]), sources |-> {},
                            is_list |-> TRUE]] @@ afterProp

----------------------------------------------------------------------------
(* Schedule E aggregation (create_populated_gemini_structure) *)

col_letters == <<"A", "B", "C">>

income_keys == {"TotalRevenue", "RentalIncome"}

expense_map ==
    [k \in {"AdvertisingExpense", "AutoTravelExpense", "CleaningMaintenanceExpense",
            "CommissionsExpense", "InsuranceExpense", "LegalProfessionalExpense",
            "ManagementFeeExpense", "MortgageInterestExpense", "OtherInterestExpense",
            "RepairsExpense", "SuppliesExpense", "TaxesExpense", "UtilitiesExpense",
            "DepreciationExpense", "TotalOperatingExpenses"} |->
        CASE k = "AdvertisingExpense" -> "SchedE_Line5_Advertising"
          [] k = "AutoTravelExpense" -> "SchedE_Line6_AutoTravel"
          [] k = "CleaningMaintenanceExpense" -> "SchedE_Line7_CleaningMaintenance"
          [] k = "CommissionsExpense" -> "SchedE_Line8_Commissions"
          [] k = "InsuranceExpense" -> "SchedE_Line9_Insurance"
          [] k = "LegalProfessionalExpense" -> "SchedE_Line10_LegalProfessionalFees"
          [] k = "ManagementFeeExpense" -> "SchedE_Line11_ManagementFees"
          [] k = "MortgageInterestExpense" -> "SchedE_Line12_MortgageInterestBanks"
          [] k = "OtherInterestExpense" -> "SchedE_Line13_OtherInterest"
          [] k = "RepairsExpense" -> "SchedE_Line14_Repairs"
          [] k = "SuppliesExpense" -> "SchedE_Line15_Supplies"
          [] k = "TaxesExpense" -> "SchedE_Line16_Taxes"
          [] k = "UtilitiesExpense" -> "SchedE_Line17_Utilities"
          [] k = "DepreciationExpense" -> "SchedE_Line18_DepreciationDepletion"
          [] k = "TotalOperatingExpenses" -> "SchedE_Line19_OtherExpenseA"]

\* The expense lines of one property column, lines 5 to 19
SchedEExpenseLines ==
    <<"SchedE_Line5_Advertising", "SchedE_Line6_AutoTravel",
      "SchedE_Line7_CleaningMaintenance", "SchedE_Line8_Commissions",
      "SchedE_Line9_Insurance", "SchedE_Line10_LegalProfessionalFees",
      "SchedE_Line11_ManagementFees", "SchedE_Line12_MortgageInterestBanks",
      "SchedE_Line13_OtherInterest", "SchedE_Line14_Repairs", "SchedE_Line15_Supplies",
      "SchedE_Line16_Taxes", "SchedE_Line17_Utilities",
      "SchedE_Line18_DepreciationDepletion", "SchedE_Line19_OtherExpense">>

\* Field names of one column without their trailing column letter
SchedEColumnFields ==
    {SchedEExpenseLines[i] : i \in 1..Len(SchedEExpenseLines)}
    \cup {"SchedE_Line1a_Address", "SchedE_Line3_RentsReceived",
          "SchedE_Line4_RoyaltiesReceived", "SchedE_Line20_TotalExpenses",
          "SchedE_Line21_IncomeLoss", "SchedE_Line22_DeductibleLoss"}

SchedETemplateFields ==
    {base \o col_letters[i] : base \in SchedEColumnFields, i \in 1..Len(col_letters)}
    \cup {"SchedE_Line26_TotalIncomeLoss"}

\* The identifier of a document's property: the cleaned PropertyAddress value
\* when that value is truthy, else the "source" of the PropertyAddress entry,
\* else the literal "UnknownSource" when the document has no such entry.
PropertyId(document_data, doc_source) ==
    IF "PropertyAddress" \in DOMAIN document_data
    THEN LET prop_addr_data == document_data["PropertyAddress"]
         IN  IF ~prop_addr_data.null /\ prop_addr_data.s # <<>>
             THEN [address |-> _clean_string(prop_addr_data).s, source |-> ""]
             ELSE [address |-> <<>>, source |-> doc_source]
    ELSE [address |-> <<>>, source |-> "UnknownSource"]

\* Body of the loop over document_data.items() for one key of one property.
SchedEEntry(prop_data, key, value, source) ==
    LET cleaned == _clean_string(value)
        target_agg_key == IF key \in income_keys THEN "SchedE_Line3_RentsReceived"
                          ELSE IF key \in DOMAIN expense_map THEN expense_map[key]
                          ELSE ""
    IN  IF cleaned.null \/ target_agg_key = "" THEN prop_data
        ELSE SumBranch(prop_data, target_agg_key, cleaned.s, source)

RECURSIVE SchedEKeys(_, _, _)
SchedEKeys(prop_data, doc, keys) ==
    IF keys = {} THEN prop_data
    ELSE LET key == CHOOSE k \in keys : TRUE
         IN  SchedEKeys(SchedEEntry(prop_data, key, doc.data[key], doc.source),
                        doc, keys \ {key})

\* One document of the Schedule E loop: column assignment, then accumulation;
\* a document of a property beyond the third is skipped (continue).
SchedEDocument(acc, doc) ==
    LET prop_id == PropertyId(doc.data, doc.source)
        known == prop_id \in DOMAIN acc.map
        assigned ==
            IF known THEN acc
            ELSE [map |-> Put(acc.map, prop_id, col_letters[acc.idx + 1]),
                  idx |-> acc.idx + 1,
                  final |-> Put(acc.final, col_letters[acc.idx + 1], EmptyMap)]
    IN  IF ~known /\ acc.idx >= Len(col_letters) THEN acc
        ELSE LET col == assigned.map[prop_id]
             IN  [assigned EXCEPT !.final[col] = SchedEKeys(@, doc, DOMAIN doc.data)]

----------------------------------------------------------------------------
(* _map_aggregated_to_gemini_fields *)

SOURCE_TO_TARGET_MAP(form) ==
    CASE form = Form1040 ->
            [k \in {"WagesTipsOtherComp", "FederalIncomeTaxWithheld", "EmployeeSSN",
                    "EmployeeAddress", "FilingStatus", "Aggregated1099Withholding",
                    "AggregatedOtherWithholding", "EstimatedTaxPaymentsMade",
                    "TotalTaxableInterest", "TotalOrdinaryDividends",
                    "TotalTaxableIRADistributions", "TotalTaxablePensionsAnnuities",
                    "TotalTaxableSocialSecurity", "TotalCapitalGainLoss"} |->
                CASE k = "WagesTipsOtherComp" -> "Income_1z"
                  [] k = "FederalIncomeTaxWithheld" -> "Line25a_FormW2"
                  [] k = "EmployeeSSN" -> "YourSocialSecurityNumber"
                  [] k = "EmployeeAddress" -> "HomeAddress"
                  [] k = "FilingStatus" -> "FilingStatus"
                  [] k = "Aggregated1099Withholding" -> "Line25b_Form1099"
                  [] k = "AggregatedOtherWithholding" -> "Line25c_OtherForms"
                  [] k = "EstimatedTaxPaymentsMade" -> "Line26_EstimatedTaxPayments"
                  [] k = "TotalTaxableInterest" -> "Line2b_TaxableInterest"
                  [] k = "TotalOrdinaryDividends" -> "Line3b_OrdinaryDividends"
                  [] k = "TotalTaxableIRADistributions" -> "Line4b_TaxableIRADistributions"
                  [] k = "TotalTaxablePensionsAnnuities" -> "Line5b_TaxablePensionsAnnuities"
                  [] k = "TotalTaxableSocialSecurity" -> "Line6b_TaxableSocialSecurity"
                  [] k = "TotalCapitalGainLoss" -> "Line7_CapitalGainLoss"]
      [] form = FormSchedC ->
            [k \in {"BusinessName", "PrincipalBusinessActivity",
                    "EmployerIdentificationNumber", "BusinessAddress",
                    "BusinessCityStateZip", "EmployeeName", "EmployeeSSN",
                    "Line1_GrossReceiptsSales_INPUT", "ReturnsAllowances",
                    "CostOfGoodsSold", "AdvertisingExpense", "CarTruckExpense",
                    "CommissionsFeesExpense", "ContractLaborExpense", "DepletionExpense",
                    "DepreciationExpense", "EmployeeBenefitExpense", "InsuranceExpense",
                    "InterestMortgageExpense", "InterestOtherExpense",
                    "LegalProfessionalExpense", "OfficeExpense",
                    "PensionProfitSharingExpense", "RentLeaseVehicleExpense",
                    "RentLeaseOtherExpense", "RepairsMaintenanceExpense",
                    "SuppliesExpense", "TaxesLicensesExpense", "TravelExpense",
                    "MealsExpense", "UtilitiesExpense", "WagesExpense"} |->
                CASE k = "BusinessName" -> "BusinessName"
                  [] k = "PrincipalBusinessActivity" -> "PrincipalBusiness"
                  [] k = "EmployerIdentificationNumber" -> "EIN"
                  [] k = "BusinessAddress" -> "BusinessAddress"
                  [] k = "BusinessCityStateZip" -> "BusinessCity"
                  [] k = "EmployeeName" -> "NameOfProprietor"
                  [] k = "EmployeeSSN" -> "SSN"
                  [] k = "Line1_GrossReceiptsSales_INPUT" -> "Line1_GrossReceiptsSales"
                  [] k = "ReturnsAllowances" -> "Line2_ReturnsAllowances"
                  [] k = "CostOfGoodsSold" -> "Line4_CostOfGoodsSold"
                  [] k = "AdvertisingExpense" -> "Line8_Advertising"
                  [] k = "CarTruckExpense" -> "Line9_CarTruckExpenses"
                  [] k = "CommissionsFeesExpense" -> "Line10_CommissionsFees"
                  [] k = "ContractLaborExpense" -> "Line11_ContractLabor"
                  [] k = "DepletionExpense" -> "Line12_Depletion"
                  [] k = "DepreciationExpense" -> "Line13_DepreciationSection179"
                  [] k = "EmployeeBenefitExpense" -> "Line14_EmployeeBenefitPrograms"
                  [] k = "InsuranceExpense" -> "Line15_Insurance"
                  [] k = "InterestMortgageExpense" -> "Line16a_InterestMortgage"
                  [] k = "InterestOtherExpense" -> "Line16b_InterestOther"
                  [] k = "LegalProfessionalExpense" -> "Line17_LegalProfessionalServices"
                  [] k = "OfficeExpense" -> "Line18_OfficeExpense"
                  [] k = "PensionProfitSharingExpense" -> "Line19_PensionProfitSharing"
                  [] k = "RentLeaseVehicleExpense" -> "Line20a_RentLeaseVehicles"
                  [] k = "RentLeaseOtherExpense" -> "Line20b_RentLeaseOther"
                  [] k = "RepairsMaintenanceExpense" -> "Line21_RepairsMaintenance"
                  [] k = "SuppliesExpense" -> "Line22_Supplies"
                  [] k = "TaxesLicensesExpense" -> "Line23_TaxesLicenses"
                  [] k = "TravelExpense" -> "Line24a_Travel"
                  [] k = "MealsExpense" -> "Line24b_DeductibleMeals"
                  [] k = "UtilitiesExpense" -> "Line25_Utilities"
                  [] k = "WagesExpense" -> "Line26_Wages"]
      [] form = Form2441 ->
            [k \in {"DependentCareProviderName", "ProviderAddress", "ProviderTaxID",
                    "ProviderAmountPaid", "DependentNameForCare", "DependentSSNForCare",
                    "ChildCareExpenses", "EmployerProvidedDependentCareBenefits"} |->
                CASE k = "DependentCareProviderName" -> "F2441_Line1a_ProviderName"
                  [] k = "ProviderAddress" -> "F2441_Line1b_ProviderAddress"
                  [] k = "ProviderTaxID" -> "F2441_Line1c_ProviderTIN"
                  [] k = "ProviderAmountPaid" -> "F2441_Line1e_AmountPaid"
                  [] k = "DependentNameForCare" -> "F2441_Line2a_DependentName"
                  [] k = "DependentSSNForCare" -> "F2441_Line2b_DependentSSN"
                  [] k = "ChildCareExpenses" -> "F2441_Line2c_QualifiedExpenses"
                  [] k = "EmployerProvidedDependentCareBenefits" ->
                        "F2441_Line12_EmployerBenefits"]
      [] form = Form8812 -> EmptyMap
      [] form = FormScheduleA ->
            [k \in {"MedicalExpenses", "StateAndLocalTaxes", "RealEstateTaxes",
                    "PersonalPropertyTaxes", "HomeMortgageInterest", "InvestmentInterest",
                    "CharitableContributionsCash", "CharitableContributionsNonCash"} |->
                CASE k = "MedicalExpenses" -> "SchA_Line1_MedicalDentalExpenses"
                  [] k = "StateAndLocalTaxes" -> "SchA_Line5a_StateLocalTaxes"
                  [] k = "RealEstateTaxes" -> "SchA_Line5b_RealEstateTaxes"
                  [] k = "PersonalPropertyTaxes" -> "SchA_Line5c_PersonalPropertyTaxes"
                  [] k = "HomeMortgageInterest" -> "SchA_Line8a_HomeMortgageInterest"
                  [] k = "InvestmentInterest" -> "SchA_Line9_InvestmentInterest"
                  [] k = "CharitableContributionsCash" -> "SchA_Line11_ContributionsCash"
                  [] k = "CharitableContributionsNonCash" ->
                        "SchA_Line12_ContributionsOther"]

\* Keys whose target is a list of fields (the name split).
NameSplitKeys(form) == IF form = Form1040 THEN {"EmployeeName"} ELSE {}

RECURSIVE FirstWord(_)
FirstWord(s) ==
    IF s = <<>> \/ Head(s) \in Whitespace THEN <<>>
    ELSE <<Head(s)>> \o FirstWord(Tail(s))

\* full_name.split(maxsplit=1)
SplitMax1(full_name) ==
    LET t == LStrip(full_name)
        first == FirstWord(t)
        rest == LStrip(SubSeq(t, Len(first) + 1, Len(t)))
    IN  IF t = <<>> THEN <<>>
        ELSE IF rest = <<>> THEN <<first>>
        ELSE <<first, rest>>

\* The two fields derived from an aggregated EmployeeName.
NameSplit(aggregated) ==
    LET parts == SplitMax1(aggregated.value.s)
        first_initial == IF parts # <<>> THEN Strip(<<parts[1][1]>>) ELSE <<>>
        last_name == IF Len(parts) > 1 THEN Strip(parts[2]) ELSE <<>>
    IN  ("FirstNameInitial" :> [value |-> StrV(first_initial),
                                sources |-> aggregated.sources, is_list |-> FALSE])
        @@ ("LastName" :> [value |-> StrV(last_name),
                           sources |-> aggregated.sources, is_list |-> FALSE])

_map_aggregated_to_gemini_fields(aggregated_form_data, form) ==
    LET current_map == SOURCE_TO_TARGET_MAP(form)
        direct == {k \in DOMAIN aggregated_form_data : k \in DOMAIN current_map}
        targets == {current_map[k] : k \in direct}
        plain == [f \in targets |->
                    aggregated_form_data[CHOOSE k \in direct : current_map[k] = f]]
        split == {k \in DOMAIN aggregated_form_data :
                     k \in NameSplitKeys(form) /\ ~aggregated_form_data[k].is_list}
    IN  IF split = {} THEN plain
        ELSE NameSplit(aggregated_form_data[CHOOSE k \in split : TRUE]) @@ plain

----------------------------------------------------------------------------
(* Blank structure and injection *)

\* Field names of a form's blank structure: the fields the mapper targets and
\* the calculation reads or writes, plus Form 1040 line 9.
TemplateFields(form) ==
    CASE form = Form1040 ->
            {SOURCE_TO_TARGET_MAP(Form1040)[k] : k \in DOMAIN SOURCE_TO_TARGET_MAP(Form1040)}
            \cup {"FirstNameInitial", "LastName", "Line9_TotalIncome",
                  "Line11_AdjustedGrossIncome", "Line12_DeductionAmount",
                  "Line12_UsedItemized", "Line13_QualifiedBusinessIncomeDeduction",
                  "Line14_TotalDeductions", "Line15_TaxableIncome", "Line16_Tax",
                  "Line17_AmountFromSchedule2", "Line18_TotalTaxBeforeCredits",
                  "Line21_TotalNonrefundableCredits",
                  "Line22_TaxAfterNonrefundableCredits", "Line23_OtherTaxes",
                  "Line24_TotalTax", "Line33_TotalPayments", "Line34_AmountOverpaid",
                  "Line37_AmountYouOwe"}
      [] form = FormSchedC ->
            {SOURCE_TO_TARGET_MAP(FormSchedC)[k] : k \in DOMAIN SOURCE_TO_TARGET_MAP(FormSchedC)}
            \cup {"Line3_GrossProfit", "Line5_GrossIncome", "Line27a_OtherExpenses",
                  "Line28_TotalExpenses", "Line31_NetProfitLoss"}
      [] form = FormSchedE -> SchedETemplateFields
      [] form = Form2441 ->
            {SOURCE_TO_TARGET_MAP(Form2441)[k] : k \in DOMAIN SOURCE_TO_TARGET_MAP(Form2441)}
      [] form = Form8812 -> {"F8812_Line1_AGI", "F8812_Line4_NumberOfQualifyingChildren"}
      [] form = FormScheduleA ->
            {SOURCE_TO_TARGET_MAP(FormScheduleA)[k]
                : k \in DOMAIN SOURCE_TO_TARGET_MAP(FormScheduleA)}
            \cup {"SchA_Line2_AGI", "SchA_Line3_AGILimit", "SchA_Line4_DeductibleMedical",
                  "SchA_Line5d_TotalSALT", "SchA_Line5e_LimitedSALT",
                  "SchA_Line6_OtherTaxes", "SchA_Line7_TotalTaxes",
                  "SchA_Line8e_TotalHomeMortgageInterest", "SchA_Line10_TotalInterest",
                  "SchA_Line13_Carryover", "SchA_Line14_TotalContributions",
                  "SchA_Line15_CasualtyTheftLoss", "SchA_Line16_OtherDeductions",
                  "SchA_Line17_TotalItemizedDeductions"}

BlankField == [value |-> NullV, sources |-> {}, sources_null |-> TRUE]

\* json.load of the blank structure: every field unset
BlankStructure(form) == [f \in TemplateFields(form) |-> BlankField]

\* Step 4 of create_populated_gemini_structure for the pre-mapped forms.
InjectField(field_def, aggregated_info) ==
    IF aggregated_info.is_list
    THEN [field_def EXCEPT !.value = aggregated_info.value]
    ELSE [value |-> aggregated_info.value, sources |-> aggregated_info.sources,
          sources_null |-> FALSE]

Inject(structure, mapped) ==
    [f \in DOMAIN structure |->
        IF f \in DOMAIN mapped THEN InjectField(structure[f], mapped[f])
        ELSE structure[f]]

----------------------------------------------------------------------------
(* Calculation helpers *)

_get_field_value(structure, field_name) ==
    IF field_name \in DOMAIN structure THEN structure[field_name].value ELSE NullV

\* "(x)" read as "-x"
Negated(cleaned_value) ==
    IF Len(cleaned_value) >= 1 /\ cleaned_value[1] = "("
       /\ cleaned_value[Len(cleaned_value)] = ")"
    THEN <<"-">> \o SubSeq(cleaned_value, 2, Len(cleaned_value) - 1)
    ELSE cleaned_value

AmountOrDefault(parsed) == IF parsed.ok THEN parsed.n ELSE 0

\* float(value) for a string field: "$" and "," removed, "(x)" read as "-x";
\* a value that does not parse gives the default 0.0
StringAmount(text) == AmountOrDefault(NumericLiteral(Negated(RemoveChars(text, {"$", ","}))))

\* The amount in cents; a bool is an int in Python, so True reads as 1.0.
_get_numeric_value(structure, field_name) ==
    LET value == _get_field_value(structure, field_name)
    IN  CASE value.t = "null" -> 0
          [] value.t = "str" -> StringAmount(value.s)
          [] value.t = "num" -> value.n
          [] value.t = "bool" -> Cents(value.n)
          [] OTHER -> 0

_set_field_value(structure, field_name, value) ==
    IF field_name \in DOMAIN structure
    THEN [structure EXCEPT ![field_name] =
             [value |-> value, sources |-> {"Calculated"}, sources_null |-> FALSE]]
    ELSE structure

RECURSIVE SetAll(_, _)
\* A run of _set_field_value calls, in order.
SetAll(structure, assignments) ==
    IF assignments = <<>> THEN structure
    ELSE SetAll(_set_field_value(structure, assignments[1][1], assignments[1][2]),
                Tail(assignments))

Max(a, b) == IF a >= b THEN a ELSE b

Chars(str) ==
    CASE str = "Single" -> <<"S", "i", "n", "g", "l", "e">>
      [] str = "MarriedFilingJointly" ->
            <<"M", "a", "r", "r", "i", "e", "d", "F", "i", "l", "i", "n", "g",
              "J", "o", "i", "n", "t", "l", "y">>
      [] str = "MarriedFilingSeparately" ->
            <<"M", "a", "r", "r", "i", "e", "d", "F", "i", "l", "i", "n", "g",
              "S", "e", "p", "a", "r", "a", "t", "e", "l", "y">>
      [] str = "HeadOfHousehold" ->
            <<"H", "e", "a", "d", "O", "f", "H", "o", "u", "s", "e", "h", "o", "l", "d">>
      [] str = "QualifyingWidow(er)" ->
            <<"Q", "u", "a", "l", "i", "f", "y", "i", "n", "g", "W", "i", "d", "o", "w",
              "(", "e", "r", ")">>

----------------------------------------------------------------------------
(* _perform_calculations, Form 1040 *)

\* std_deduction_map.get(filing_status, 13850), in cents
std_deduction(filing_status) ==
    CASE filing_status = StrV(Chars("Single")) -> Cents(13850)
      [] filing_status = StrV(Chars("MarriedFilingJointly")) -> Cents(27700)
      [] filing_status = StrV(Chars("MarriedFilingSeparately")) -> Cents(13850)
      [] filing_status = StrV(Chars("HeadOfHousehold")) -> Cents(20800)
      [] filing_status = StrV(Chars("QualifyingWidow(er)")) -> Cents(27700)
      [] OTHER -> Cents(13850)

\* A plausible slip: the comparison is reversed, the smaller deduction wins.
Line12DeductionReversed(line17_itemized_total, line12_std_deduction) ==
    LET use_itemized == line17_itemized_total < line12_std_deduction
    IN  [use_itemized |-> use_itemized,
         amount |-> IF use_itemized THEN line17_itemized_total ELSE line12_std_deduction]

\* Line 12 from the itemized total (cents) and the standard deduction (cents)
Line12Deduction(line17_itemized_total, line12_std_deduction) ==
    LET use_itemized == line17_itemized_total > line12_std_deduction
    IN  [use_itemized |-> use_itemized,
         amount |-> IF use_itemized THEN line17_itemized_total ELSE line12_std_deduction]

\* Decimal.quantize(Decimal('0.01')) of a non-negative amount given in
\* hundredths of a cent: round half to even.
Quantize(units) ==
    LET q == units \div 100
        r == units % 100
    IN  IF r < 50 THEN q
        ELSE IF r > 50 THEN q + 1
        ELSE IF q % 2 = 0 THEN q ELSE q + 1

\* One band: base dollars plus rate percent of the cents above the floor,
\* in hundredths of a cent.
Band(base, taxable_income, floor, rate) ==
    base * 10000 + (taxable_income - Cents(floor)) * rate

\* The bracket tables.  The top band of the Single and fallback tables adds the
\* float 16271.75 to a Decimal, which raises TypeError (ok = FALSE).
Line16Tax(filing_status, taxable_income) ==
    IF filing_status = StrV(Chars("MarriedFilingJointly"))
    THEN [ok |-> TRUE,
          n |-> Quantize(
                 IF taxable_income <= Cents(22000) THEN taxable_income * 10
                 ELSE IF taxable_income <= Cents(89450)
                 THEN Band(2200, taxable_income, 22000, 12)
                 ELSE IF taxable_income <= Cents(190750)
                 THEN Band(10294, taxable_income, 89450, 22)
                 ELSE Band(32580, taxable_income, 190750, 24))]
    ELSE IF taxable_income <= Cents(95375)
    THEN [ok |-> TRUE,
          n |-> Quantize(
                 IF taxable_income <= Cents(11000) THEN taxable_income * 10
                 ELSE IF taxable_income <= Cents(44725)
                 THEN Band(1100, taxable_income, 11000, 12)
                 ELSE Band(5147, taxable_income, 44725, 22))]
    ELSE [ok |-> FALSE, n |-> 0]

\* A plausible slip: the amount owed is the difference whatever its sign.
OverpaidAndOwedNoGuard(line33_total_payments, line24_total_tax) ==
    [overpaid |-> IF line33_total_payments > line24_total_tax
                  THEN line33_total_payments - line24_total_tax ELSE 0,
     owed |-> IF line24_total_tax > line33_total_payments
              THEN line24_total_tax - line33_total_payments
              ELSE line33_total_payments - line24_total_tax]

\* Lines 34 and 37 from total payments and total tax
OverpaidAndOwed(line33_total_payments, line24_total_tax) ==
    [overpaid |-> IF line33_total_payments > line24_total_tax
                  THEN line33_total_payments - line24_total_tax ELSE 0,
     owed |-> IF line24_total_tax > line33_total_payments
              THEN line24_total_tax - line33_total_payments ELSE 0]

Calculate1040(populated_structure, cache) ==
    LET line17_itemized_total ==
            IF "Schedule A" \in DOMAIN cache
            THEN _get_numeric_value(cache["Schedule A"],
                                    "SchA_Line17_TotalItemizedDeductions")
            ELSE 0
        filing_status == _get_field_value(populated_structure, "FilingStatus")
        line12 == Line12Deduction(line17_itemized_total, std_deduction(filing_status))
        line13 == _get_numeric_value(populated_structure,
                                     "Line13_QualifiedBusinessIncomeDeduction")
        line14 == line12.amount + line13
        line11_agi == _get_numeric_value(populated_structure, "Line11_AdjustedGrossIncome")
        line15_taxable_income == Max(0, line11_agi - line14)
        upTo15 == SetAll(populated_structure,
                    << <<"Line12_DeductionAmount", NumV(line12.amount)>>,
                       <<"Line12_UsedItemized", BoolV(line12.use_itemized)>>,
                       <<"Line14_TotalDeductions", NumV(line14)>>,
                       <<"Line15_TaxableIncome", NumV(line15_taxable_income)>> >>)
        line16_tax == Line16Tax(filing_status, line15_taxable_income)
        line17 == _get_numeric_value(populated_structure, "Line17_AmountFromSchedule2")
        line18 == line16_tax.n + line17
        line21 == _get_numeric_value(populated_structure, "Line21_TotalNonrefundableCredits")
        line22 == Max(0, line18 - line21)
        line23 == _get_numeric_value(populated_structure, "Line23_OtherTaxes")
        line24_total_tax == line22 + line23
        line33_total_payments == _get_numeric_value(populated_structure,
                                                    "Line33_TotalPayments")
        balance == OverpaidAndOwed(line33_total_payments, line24_total_tax)
    IN  IF ~line16_tax.ok
        THEN [structure |-> upTo15, error |-> "TypeError"]
        ELSE [structure |->
                SetAll(upTo15,
                    << <<"Line16_Tax", NumV(line16_tax.n)>>,
                       <<"Line18_TotalTaxBeforeCredits", NumV(line18)>>,
                       <<"Line22_TaxAfterNonrefundableCredits", NumV(line22)>>,
                       <<"Line24_TotalTax", NumV(line24_total_tax)>>,
                       <<"Line34_AmountOverpaid", NumV(balance.overpaid)>>,
                       <<"Line37_AmountYouOwe", NumV(balance.owed)>> >>),
              error |-> "none"]

----------------------------------------------------------------------------
(* _perform_calculations, Schedule C *)

SchedCExpenseLines ==
    <<"Line8_Advertising", "Line9_CarTruckExpenses", "Line10_CommissionsFees",
      "Line11_ContractLabor", "Line12_Depletion", "Line13_DepreciationSection179",
      "Line14_EmployeeBenefitPrograms", "Line15_Insurance", "Line16a_InterestMortgage",
      "Line16b_InterestOther", "Line17_LegalProfessionalServices", "Line18_OfficeExpense",
      "Line19_PensionProfitSharing", "Line20a_RentLeaseVehicles", "Line20b_RentLeaseOther",
      "Line21_RepairsMaintenance", "Line22_Supplies", "Line23_TaxesLicenses",
      "Line24a_Travel", "Line24b_DeductibleMeals", "Line25_Utilities", "Line26_Wages",
      "Line27a_OtherExpenses">>

RECURSIVE SumLines(_, _)
SumLines(structure, names) ==
    IF names = <<>> THEN 0
    ELSE _get_numeric_value(structure, Head(names)) + SumLines(structure, Tail(names))

CalculateSchedC(populated_structure) ==
    LET line1 == _get_numeric_value(populated_structure, "Line1_GrossReceiptsSales")
        line2 == _get_numeric_value(populated_structure, "Line2_ReturnsAllowances")
        line3 == line1 - line2
        line4 == _get_numeric_value(populated_structure, "Line4_CostOfGoodsSold")
        line5 == line3 - line4
        line28 == SumLines(populated_structure, SchedCExpenseLines)
        line31 == line5 - line28
    IN  [structure |->
            SetAll(populated_structure,
                << <<"Line3_GrossProfit", NumV(line3)>>,
                   <<"Line5_GrossIncome", NumV(line5)>>,
                   <<"Line28_TotalExpenses", NumV(line28)>>,
                   <<"Line31_NetProfitLoss", NumV(line31)>> >>),
         error |-> "none"]

----------------------------------------------------------------------------
(* _perform_calculations, Schedule A *)

Min(a, b) == IF a <= b THEN a ELSE b

\* agi * Decimal('0.075'): agi is the float returned by _get_numeric_value,
\* and a float times a Decimal raises TypeError (ok = FALSE) whatever the
\* amount; n is the product the expression was written for, in cents.
MedicalAgiLimit(agi) == [ok |-> FALSE, n |-> (agi * 75) \div 1000]

\* min(total SALT, cap): 5000 for married filing separately, else 10000
LimitedSALT(line5d_total_salt_prop, filing_status) ==
    LET salt_cap == IF filing_status = StrV(Chars("MarriedFilingSeparately"))
                    THEN Cents(5000) ELSE Cents(10000)
    IN  Min(line5d_total_salt_prop, salt_cap)

CalculateScheduleA(populated_structure, cache) ==
    LET form1040_structure == IF Form1040 \in DOMAIN cache THEN cache[Form1040]
                              ELSE EmptyMap
        agi == _get_numeric_value(form1040_structure, "Line11_AdjustedGrossIncome")
        withAgi == _set_field_value(populated_structure, "SchA_Line2_AGI", NumV(agi))
        line1_medical_raw ==
            _get_numeric_value(withAgi, "SchA_Line1_MedicalDentalExpenses")
        line3_agi_limit_medical == MedicalAgiLimit(agi)
        line4_deductible_medical == Max(0, line1_medical_raw - line3_agi_limit_medical.n)
        line5d_total_salt_prop ==
            _get_numeric_value(withAgi, "SchA_Line5a_StateLocalTaxes")
            + _get_numeric_value(withAgi, "SchA_Line5b_RealEstateTaxes")
            + _get_numeric_value(withAgi, "SchA_Line5c_PersonalPropertyTaxes")
        filing_status == _get_field_value(form1040_structure, "FilingStatus")
        line5e_capped_salt == LimitedSALT(line5d_total_salt_prop, filing_status)
        line7_total_taxes ==
            line5e_capped_salt + _get_numeric_value(withAgi, "SchA_Line6_OtherTaxes")
        line8e_total_home_interest ==
            _get_numeric_value(withAgi, "SchA_Line8a_HomeMortgageInterest")
        line10_total_interest == line8e_total_home_interest + 0
        line14_total_charity ==
            _get_numeric_value(withAgi, "SchA_Line11_ContributionsCash")
            + _get_numeric_value(withAgi, "SchA_Line12_ContributionsOther")
            + _get_numeric_value(withAgi, "SchA_Line13_Carryover")
        line17_total_itemized ==
            line4_deductible_medical + line7_total_taxes + line10_total_interest
            + line14_total_charity + 0 + 0
    IN  IF ~line3_agi_limit_medical.ok
        THEN [structure |-> withAgi, error |-> "TypeError"]
        ELSE [structure |->
                SetAll(withAgi,
                    << <<"SchA_Line3_AGILimit", NumV(line3_agi_limit_medical.n)>>,
                       <<"SchA_Line4_DeductibleMedical", NumV(line4_deductible_medical)>>,
                       <<"SchA_Line5d_TotalSALT", NumV(line5d_total_salt_prop)>>,
                       <<"SchA_Line5e_LimitedSALT", NumV(line5e_capped_salt)>>,
                       <<"SchA_Line7_TotalTaxes", NumV(line7_total_taxes)>>,
                       <<"SchA_Line8e_TotalHomeMortgageInterest",
                         NumV(line8e_total_home_interest)>>,
                       <<"SchA_Line9_InvestmentInterest", NumV(0)>>,
                       <<"SchA_Line10_TotalInterest", NumV(line10_total_interest)>>,
                       <<"SchA_Line14_TotalContributions", NumV(line14_total_charity)>>,
                       <<"SchA_Line15_CasualtyTheftLoss", NumV(0)>>,
                       <<"SchA_Line16_OtherDeductions", NumV(0)>>,
                       <<"SchA_Line17_TotalItemizedDeductions",
                         NumV(line17_total_itemized)>> >>),
              error |-> "none"]

----------------------------------------------------------------------------
(* Schedule E injection and calculation *)

\* Step 4 for Schedule E: a field whose name ends in A, B or C takes the
\* aggregated entry of that column whose key is the name without the letter;
\* any other field takes a top-level entry of its own name.
SchedEAggregatedInfo(gemini_field_name, final_aggregated_values) ==
    LET hits == {<<col_letters[i], base>> :
                    i \in {j \in 1..Len(col_letters) :
                              col_letters[j] \in DOMAIN final_aggregated_values},
                    base \in SchedEColumnFields}
        found == {h \in hits :
                     /\ h[2] \o h[1] = gemini_field_name
                     /\ h[2] \in DOMAIN final_aggregated_values[h[1]]}
    IN  IF found = {} THEN [found |-> FALSE, info |-> BlankField]
        ELSE LET h == CHOOSE x \in found : TRUE
             IN  [found |-> TRUE, info |-> final_aggregated_values[h[1]][h[2]]]

SchedEInject(structure, final_aggregated_values) ==
    [f \in DOMAIN structure |->
        LET aggregated_info == SchedEAggregatedInfo(f, final_aggregated_values)
        IN  IF aggregated_info.found THEN InjectField(structure[f], aggregated_info.info)
            ELSE structure[f]]

RECURSIVE SumColumnLines(_, _, _)
SumColumnLines(structure, names, col) ==
    IF names = <<>> THEN 0
    ELSE _get_numeric_value(structure, Head(names) \o col)
         + SumColumnLines(structure, Tail(names), col)

\* One pass of "for col in property_columns": a column whose rents field is
\* unset is skipped; acc is the structure and the running line 26.
SchedEColumn(acc, col) ==
    LET rent_field == "SchedE_Line3_RentsReceived" \o col
    IN  IF _get_field_value(acc.structure, rent_field) = NullV THEN acc
        ELSE LET line20_total_expenses ==
                     SumColumnLines(acc.structure, SchedEExpenseLines, col)
                 line3_rents == _get_numeric_value(acc.structure, rent_field)
                 line4_royalties ==
                     _get_numeric_value(acc.structure,
                                        "SchedE_Line4_RoyaltiesReceived" \o col)
                 line21_income_loss ==
                     (line3_rents + line4_royalties) - line20_total_expenses
                 line22_deductible_loss ==
                     IF line21_income_loss < 0 THEN line21_income_loss ELSE 0
             IN  [structure |->
                     SetAll(acc.structure,
                         << <<"SchedE_Line20_TotalExpenses" \o col,
                              NumV(line20_total_expenses)>>,
                            <<"SchedE_Line21_IncomeLoss" \o col,
                              NumV(line21_income_loss)>>,
                            <<"SchedE_Line22_DeductibleLoss" \o col,
                              NumV(line22_deductible_loss)>> >>),
                  total |-> acc.total + line21_income_loss]

RECURSIVE SchedEColumns(_, _)
SchedEColumns(acc, cols) ==
    IF cols = <<>> THEN acc
    ELSE SchedEColumns(SchedEColumn(acc, Head(cols)), Tail(cols))

CalculateSchedE(populated_structure) ==
    LET after == SchedEColumns([structure |-> populated_structure, total |-> 0],
                               col_letters)
    IN  [structure |-> _set_field_value(after.structure,
                                        "SchedE_Line26_TotalIncomeLoss",
                                        NumV(after.total)),
         error |-> "none"]

----------------------------------------------------------------------------
(* _perform_calculations *)

_perform_calculations(populated_structure, form_type, cache) ==
    CASE form_type = Form1040 -> Calculate1040(populated_structure, cache)
      [] form_type = FormSchedC -> CalculateSchedC(populated_structure)
      [] form_type = FormScheduleA -> CalculateScheduleA(populated_structure, cache)
      [] form_type = FormSchedE -> CalculateSchedE(populated_structure)
      [] OTHER -> [structure |-> populated_structure, error |-> "none"]

----------------------------------------------------------------------------
(* Target form determination (utils/helpers.determine_target_forms) *)

sched_c_indicator_keys ==
    {"NonemployeeCompensation", "GrossReceipts", "TotalRevenue", "NetIncomeLoss",
     "GrossProfit", "ExpenseCategory", "VendorName", "CostOfGoodsSold",
     "TotalOperatingExpenses", "BusinessName", "PrincipalBusinessActivity"}

has_sched_c_hints(ds) ==
    \E i \in 1..Len(ds) :
        /\ ds[i].type \in {"Profit and Loss Statement", "Invoice", "Receipt", "1099-NEC"}
        /\ \E key \in sched_c_indicator_keys : key \in DOMAIN ds[i].data

\* Form 1040 is always a target; Schedule C needs an indicator key.
IsTargetForm(ds, form) ==
    \/ form = Form1040
    \/ form = FormSchedC /\ has_sched_c_hints(ds)

schedule_e_indicator_keys ==
    {"RentalIncome", "RoyaltyIncome", "PartnershipIncome", "SCorpIncome",
     "PropertyAddress", "RentalExpenses", "PropertyTaxes", "MortgageInterest"}

schedule_1_indicator_keys ==
    {"AlimonyReceived", "BusinessIncomeLoss", "OtherGainsLosses",
     "RentalRealEstateIncomeLoss", "FarmIncomeLoss", "UnemploymentCompensation",
     "OtherIncomeGamblingWinnings", "PrizesAwards", "StockOptions",
     "AlaskaPermanentFundDividends", "EducatorExpenses",
     "CertainBusinessExpensesReservists", "HealthSavingsAccountDeduction",
     "MovingExpensesMilitary", "DeductibleSE Tax", "SE HealthInsuranceDeduction",
     "SEP_SIMPLE_QualifiedPlans", "AlimonyPaid", "IRADeduction",
     "StudentLoanInterestDeduction"}

schedule_2_indicator_keys ==
    {"AlternativeMinimumTaxAmount", "ExcessAdvancePTCRepaymentAmount",
     "UnreportedSocialSecurityMedicareTax", "AdditionalTaxOnIRAs",
     "HouseholdEmploymentTaxesAmount", "AdditionalMedicareTaxAmount",
     "NetInvestmentIncomeTaxAmount", "FirstTimeHomebuyerCreditRepayment"}

schedule_3_indicator_keys ==
    {"ForeignTaxCreditAmount", "ChildCareExpenses", "EducationCreditsAmount",
     "RetirementSavingsContributionsCreditAmount", "ResidentialEnergyCreditsAmount",
     "NetPremiumTaxCreditAmount", "AmountPaidWithExtension",
     "ExcessSocialSecurityTaxWithheld"}

form_2441_indicator_keys ==
    {"ChildCareExpenses", "DependentCareProviderName", "ProviderTaxID",
     "DependentNameForCare", "DependentSSNForCare",
     "EmployerProvidedDependentCareBenefits"}

schedule_a_indicator_keys ==
    {"MedicalExpenses", "StateAndLocalTaxes", "SALT", "RealEstateTaxes",
     "PersonalPropertyTaxes", "HomeMortgageInterest", "InvestmentInterest",
     "CharitableContributionsCash", "CharitableContributionsNonCash"}

\* The texts the Form 8812 fallback looks for in str(aggregated_data_by_type)
DependentNameText ==
    <<"D", "e", "p", "e", "n", "d", "e", "n", "t", "N", "a", "m", "e">>
DependentSSNText ==
    <<"D", "e", "p", "e", "n", "d", "e", "n", "t", "S", "S", "N">>

\* Keys whose name contains DependentName or DependentSSN
DependentNamedKeys ==
    {"DependentName", "DependentSSN", "DependentNameForCare", "DependentSSNForCare"}

\* sub in text
IsInfix(sub, text) ==
    \E i \in 1..(Len(text) - Len(sub) + 1) : SubSeq(text, i, i + Len(sub) - 1) = sub

\* 'DependentName' in str(...) or 'DependentSSN' in str(...), over the keys and
\* the values of one dict of entries
MentionsDependents(entries) ==
    \/ DOMAIN entries \cap DependentNamedKeys # {}
    \/ \E k \in DOMAIN entries :
          \/ IsInfix(DependentNameText, entries[k].s)
          \/ IsInfix(DependentSSNText, entries[k].s)

RECURSIVE TypesInOrder(_, _)
\* The keys of aggregated_data_by_type: document types in order of first appearance
TypesInOrder(ds, seen) ==
    IF ds = <<>> THEN <<>>
    ELSE IF Head(ds).type \in seen THEN TypesInOrder(Tail(ds), seen)
    ELSE <<Head(ds).type>> \o TypesInOrder(Tail(ds), seen \cup {Head(ds).type})

\* determine_target_forms called with the grouped data: a value is the list of
\* the documents of a type, an element is a document, and `key in doc_data`
\* asks for a key of the document.
GroupedArgument(ds) ==
    [elements |-> [t \in {ds[i].type : i \in 1..Len(ds)} |->
                     [j \in 1..Len(aggregated_data_by_type(ds, t)) |->
                         DOMAIN aggregated_data_by_type(ds, t)[j].data]],
     dependents_list |-> \E i \in 1..Len(ds) : ds[i].type = "Dependents",
     mentions_dependents |-> \E i \in 1..Len(ds) : MentionsDependents(ds[i].data)]

\* `key in "value"` and `key in "source"`: substring tests, which no indicator
\* key passes
IndicatorKeysWithin(text) == {}

RECURSIVE FlatEntries(_)
\* temp_flat_aggregated.update(doc_data) over the documents in the order of the
\* grouped data: for a key of several documents the last entry stays
FlatEntries(ds) ==
    IF ds = <<>> THEN EmptyMap
    ELSE ds[Len(ds)].data @@ FlatEntries(SubSeq(ds, 1, Len(ds) - 1))

\* temp_flat_aggregated, the argument the driver passes: every document's
\* entries merged into one dict.  A value is one {"value", "source"} entry,
\* iterating it yields the strings "value" and "source", and `key in doc_data`
\* is a substring test on those.
temp_flat_aggregated(ds) ==
    LET flat == FlatEntries(DocsOfTypes(ds, TypesInOrder(ds, {})))
    IN  [elements |-> [k \in DOMAIN flat |->
                         <<IndicatorKeysWithin("value"), IndicatorKeysWithin("source")>>],
         dependents_list |-> FALSE,
         mentions_dependents |-> MentionsDependents(flat)]

\* any(key in doc_data for key in indicator_keys) for some element of some value
HasHints(arg, indicator_keys) ==
    \E k \in DOMAIN arg.elements : \E i \in 1..Len(arg.elements[k]) :
        arg.elements[k][i] \cap indicator_keys # {}

\* The same, for the values under the given document types only
HasTypedHints(arg, doc_types, indicator_keys) ==
    \E k \in DOMAIN arg.elements \cap doc_types : \E i \in 1..Len(arg.elements[k]) :
        arg.elements[k][i] \cap indicator_keys # {}

\* sorted(list(targets)): form names in string order
SortedFormNames ==
    <<Form1040, Form1040SE, Form2441, Form8812, FormSchedC, FormSchedE,
      FormSchedule1, FormSchedule2, FormSchedule3, FormScheduleA>>

\* A plausible slip: the set of targets starts empty
determine_target_forms_Without1040(arg) ==
    LET c == IF HasTypedHints(arg, {"Profit and Loss Statement", "Invoice", "Receipt",
                                    "1099-NEC"}, sched_c_indicator_keys)
             THEN {FormSchedC, Form1040SE} ELSE {}
        e == IF HasTypedHints(arg, {"Cash Flow Statement", "Profit and Loss Statement"},
                              schedule_e_indicator_keys)
             THEN {FormSchedE} ELSE {}
        s1 == IF HasHints(arg, schedule_1_indicator_keys) \/ c \cup e # {}
              THEN {FormSchedule1} ELSE {}
        s2 == IF HasHints(arg, schedule_2_indicator_keys) \/ Form1040SE \in c
              THEN {FormSchedule2} ELSE {}
        s3 == IF HasHints(arg, schedule_3_indicator_keys) THEN {FormSchedule3} ELSE {}
        f2441 == IF HasHints(arg, form_2441_indicator_keys) THEN {Form2441} ELSE {}
        f8812 == IF arg.dependents_list \/ arg.mentions_dependents
                 THEN {Form8812} ELSE {}
        a == IF HasHints(arg, schedule_a_indicator_keys) THEN {FormScheduleA} ELSE {}
        targets == c \cup e \cup s1 \cup s2 \cup s3 \cup f2441
                   \cup f8812 \cup a
    IN  SelectSeq(SortedFormNames, LAMBDA form : form \in targets)

determine_target_forms(arg) ==
    LET c == IF HasTypedHints(arg, {"Profit and Loss Statement", "Invoice", "Receipt",
                                    "1099-NEC"}, sched_c_indicator_keys)
             THEN {FormSchedC, Form1040SE} ELSE {}
        e == IF HasTypedHints(arg, {"Cash Flow Statement", "Profit and Loss Statement"},
                              schedule_e_indicator_keys)
             THEN {FormSchedE} ELSE {}
        s1 == IF HasHints(arg, schedule_1_indicator_keys) \/ c \cup e # {}
              THEN {FormSchedule1} ELSE {}
        s2 == IF HasHints(arg, schedule_2_indicator_keys) \/ Form1040SE \in c
              THEN {FormSchedule2} ELSE {}
        s3 == IF HasHints(arg, schedule_3_indicator_keys) THEN {FormSchedule3} ELSE {}
        f2441 == IF HasHints(arg, form_2441_indicator_keys) THEN {Form2441} ELSE {}
        f8812 == IF arg.dependents_list \/ arg.mentions_dependents
                 THEN {Form8812} ELSE {}
        a == IF HasHints(arg, schedule_a_indicator_keys) THEN {FormScheduleA} ELSE {}
        targets == {Form1040} \cup c \cup e \cup s1 \cup s2 \cup s3 \cup f2441
                   \cup f8812 \cup a
    IN  SelectSeq(SortedFormNames, LAMBDA form : form \in targets)

\* Step 3 of the driver: the flattened data goes to determine_target_forms,
\* and SchedE is appended when the run has a Cash Flow Statement.
TargetForms(ds) ==
    LET determined == determine_target_forms(temp_flat_aggregated(ds))
    IN  IF /\ \E i \in 1..Len(ds) : ds[i].type = "Cash Flow Statement"
           /\ \A i \in 1..Len(determined) : determined[i] # FormSchedE
        THEN Append(determined, FormSchedE)
        ELSE determined

----------------------------------------------------------------------------
(* Processing order and form loop of the driver (main_flow) *)

\* The order with Schedule 3 ahead of Form 2441
PROCESSING_ORDER_Schedule3First ==
    <<FormSchedC, FormSchedE, Form1040SE, FormSchedule1, FormSchedule2,
      FormSchedule3, Form2441, Form8812, FormScheduleA, Form1040>>

PROCESSING_ORDER ==
    <<FormSchedC, FormSchedE, Form1040SE, FormSchedule1, FormSchedule2, Form2441,
      FormSchedule3, Form8812, FormScheduleA, Form1040>>

InOrder(form) == \E i \in 1..Len(PROCESSING_ORDER) : PROCESSING_ORDER[i] = form

\* A plausible slip: every target is appended after the ordered ones
OrderTargetsAppendingAll(targets) ==
    LET is_target(form) == \E i \in 1..Len(targets) : targets[i] = form
    IN  SelectSeq(PROCESSING_ORDER, is_target) \o targets

\* ordered_target_forms: the targets in the predefined order, then the
\* targets the order does not name
OrderTargets(targets) ==
    LET is_target(form) == \E i \in 1..Len(targets) : targets[i] = form
    IN  SelectSeq(PROCESSING_ORDER, is_target)
        \o SelectSeq(targets, LAMBDA form : ~InOrder(form))

----------------------------------------------------------------------------
(* Inputs *)

\* Source paths of the run's documents, by input position
DocPaths == <<"doc1.pdf", "doc2.pdf", "doc3.pdf", "doc4.pdf", "doc5.pdf">>

T(str) ==
    CASE str = "100" -> <<"1", "0", "0">>
      [] str = "$1,000" -> <<"$", "1", ",", "0", "0", "0">>
      [] str = "(500)" -> <<"(", "5", "0", "0", ")">>
      [] str = "N/A" -> <<"N", "/", "A">>
      [] str = " " -> <<" ">>
      [] str = "22" -> <<"2", "2">>
      [] str = "23" -> <<"2", "3">>
      [] str = " 22 " -> <<" ", "2", "2", " ">>
      [] str = "X" -> <<"X">>
      [] str = "Y" -> <<"Y">>
      [] str = "Z" -> <<"Z">>
      [] str = "W" -> <<"W">>
      [] str = " X " -> <<" ", "X", " ">>
      [] str = "50000" -> <<"5", "0", "0", "0", "0">>
      [] str = "5000" -> <<"5", "0", "0", "0">>
      [] str = "$120,000" -> <<"$", "1", "2", "0", ",", "0", "0", "0">>
      [] str = "20000" -> <<"2", "0", "0", "0", "0">>
      [] str = "10000" -> <<"1", "0", "0", "0", "0">>
      [] str = "100000" -> <<"1", "0", "0", "0", "0", "0">>
      [] str = "2000" -> <<"2", "0", "0", "0">>
      [] str = "7000" -> <<"7", "0", "0", "0">>
      [] str = "3000" -> <<"3", "0", "0", "0">>
      [] str = "$4,118" -> <<"$", "4", ",", "1", "1", "8">>
      [] str = "Jo  Li" -> <<"J", "o", " ", " ", "L", "i">>
      [] OTHER -> Chars(str)

\* Documents of the aggregation scenarios: one SUM key, one MODE key and one
\* LIST key of Form 1040, with formatted, unparseable, empty and null values.
AggDocPool ==
    {[type |-> "W-2", data |-> ("WagesTipsOtherComp" :> Str(T("100")))],
     [type |-> "W-2", data |-> ("WagesTipsOtherComp" :> Str(T("$1,000")))],
     [type |-> "W-2", data |-> ("WagesTipsOtherComp" :> Str(T("(500)")))],
     [type |-> "W-2", data |-> ("WagesTipsOtherComp" :> Str(T("N/A")))],
     [type |-> "W-2", data |-> ("WagesTipsOtherComp" :> Null)],
     [type |-> "W-2", data |-> ("TaxYear" :> Str(T("22")))],
     [type |-> "W-2", data |-> ("TaxYear" :> Str(T("23")))],
     [type |-> "W-2", data |-> ("TaxYear" :> Str(T(" 22 ")))],
     [type |-> "W-2", data |-> ("TaxYear" :> Str(T(" ")))
                               @@ ("WagesTipsOtherComp" :> Str(T(" ")))],
     [type |-> "W-2", data |-> ("TaxYear" :> Null) @@ ("EmployerName" :> Null)],
     [type |-> "W-2", data |-> ("EmployerName" :> Str(T("X")))],
     [type |-> "W-2", data |-> ("WagesTipsOtherComp" :> Str(T("100")))
                               @@ ("TaxYear" :> Str(T("23")))
                               @@ ("EmployerName" :> Str(T("Y")))],
     [type |-> "1099-NEC", data |-> ("WagesTipsOtherComp" :> Str(T("100")))
                                    @@ ("TaxYear" :> Str(T("23")))
                                    @@ ("EmployerName" :> Str(T("X")))]}

\* Documents of the end-to-end scenarios.
FormDocPool ==
    {[type |-> "W-2", data |-> ("WagesTipsOtherComp" :> Str(T("50000")))
                               @@ ("FederalIncomeTaxWithheld" :> Str(T("5000")))],
     [type |-> "W-2", data |-> ("WagesTipsOtherComp" :> Str(T("$120,000")))
                               @@ ("FederalIncomeTaxWithheld" :> Str(T("20000")))
                               @@ ("FilingStatus" :> Str(T("Single")))],
     [type |-> "W-2", data |-> ("WagesTipsOtherComp" :> Str(T("10000")))
                               @@ ("FilingStatus" :> Str(T("MarriedFilingJointly")))],
     [type |-> "W-2", data |-> ("WagesTipsOtherComp" :> Str(T("10000")))
                               @@ ("EmployeeName" :> Str(T("Jo  Li")))],
     [type |-> "Profit and Loss Statement",
      data |-> ("GrossReceiptsOrSales" :> Str(T("100000")))
               @@ ("TotalRevenue" :> Str(T("100000")))
               @@ ("ReturnsAllowances" :> Str(T("2000")))
               @@ ("CostOfGoodsSold" :> Str(T("20000")))
               @@ ("AdvertisingExpense" :> Str(T("10000")))
               @@ ("OfficeExpense" :> Str(T("20000")))],
     [type |-> "Profit and Loss Statement",
      data |-> ("TotalRevenue" :> Str(T("50000")))
               @@ ("CostOfGoodsSold" :> Str(T("5000")))],
     [type |-> "Invoice",
      data |-> ("Line1_GrossReceiptsSales_INPUT" :> Str(T("7000")))
               @@ ("BusinessName" :> Str(T("X")))
               @@ ("TravelExpense" :> Str(T("(500)")))],
     [type |-> "1099-NEC", data |-> ("NonemployeeCompensation" :> Str(T("3000")))]}

\* The documents of a run: up to MaxDocs documents of a pool, each with the
\* source path of its input position.
Runs(pool) ==
    UNION {{[i \in 1..n |-> [type |-> c[i].type, source |-> DocPaths[i],
                             data |-> c[i].data]] : c \in [1..n -> pool]}
           : n \in 0..MaxDocs}

----------------------------------------------------------------------------
(* create_populated_gemini_structure, step by step *)

\* Classification and extraction play no part
NoIntake ==
    /\ source_document_paths = <<>>
    /\ path_idx = 0
    /\ valid_paths = <<>>
    /\ classification_futures = <<>>
    /\ doc_path_to_type = EmptyMap
    /\ extraction_errors = EmptyMap
    /\ extracted_by_type = EmptyMap
    /\ extraction_results = EmptyMap

\* create_populated_gemini_structure or _perform_calculations called on its
\* own: the variables of the driver play no part.
NoDriver ==
    /\ target_forms = <<>>
    /\ ordered_target_forms = <<>>
    /\ form_idx = 0
    /\ results = EmptyMap
    /\ flow_status = "COMPLETED"
    /\ blank_fields = EmptyMap
    /\ final_result = EmptyMap
    /\ NoIntake

\* State at entry: blank structure loaded, accumulators of the aggregator empty.
Start(ds, form, cache) ==
    /\ docs = ds
    /\ target_form = form
    /\ populated_structures_cache = cache
    /\ pc = "aggregate"
    /\ doc_idx = 1
    /\ final_aggregated = EmptyMap
    /\ all_values_for_modal_keys = [k \in modal_keys(form) |-> <<>>]
    /\ aggregated_lists = [k \in list_keys(form) |-> <<>>]
    /\ proprietor_data = EmptyMap
    /\ mapped_gemini_data = EmptyMap
    /\ gemini_structure = BlankStructure(form)
    /\ error = "none"
    /\ prop_col_map = EmptyMap
    /\ next_col_idx = 0
    /\ NoDriver

\* One document of the aggregation loop.
AggregateDocument ==
    /\ target_form # FormSchedE
    /\ pc = "aggregate"
    /\ doc_idx <= Len(RelevantDocs(docs, target_form))
    /\ LET acc == ProcessDocument(
                    [final |-> final_aggregated, modal |-> all_values_for_modal_keys,
                     lists |-> aggregated_lists, prop |-> proprietor_data],
                    target_form, RelevantDocs(docs, target_form)[doc_idx])
       IN  /\ final_aggregated' = acc.final
           /\ all_values_for_modal_keys' = acc.modal
           /\ aggregated_lists' = acc.lists
           /\ proprietor_data' = acc.prop
    /\ doc_idx' = doc_idx + 1
    /\ UNCHANGED <<prop_col_map, next_col_idx, flowVars>>
    /\ UNCHANGED <<docs, target_form, populated_structures_cache, pc,
                   mapped_gemini_data, gemini_structure, error>>

\* Post-aggregation processing and return of _aggregate_data_for_form.
FinalizeAggregation ==
    /\ target_form # FormSchedE
    /\ pc = "aggregate"
    /\ doc_idx > Len(RelevantDocs(docs, target_form))
    /\ final_aggregated' =
          Finalize([final |-> final_aggregated, modal |-> all_values_for_modal_keys,
                    lists |-> aggregated_lists, prop |-> proprietor_data])
    /\ pc' = "map"
    /\ UNCHANGED <<prop_col_map, next_col_idx, flowVars>>
    /\ UNCHANGED <<docs, target_form, populated_structures_cache, doc_idx,
                   all_values_for_modal_keys, aggregated_lists, proprietor_data,
                   mapped_gemini_data, gemini_structure, error>>

MapAggregated ==
    /\ target_form # FormSchedE
    /\ pc = "map"
    /\ mapped_gemini_data' = _map_aggregated_to_gemini_fields(final_aggregated, target_form)
    /\ pc' = "inject"
    /\ UNCHANGED <<prop_col_map, next_col_idx, flowVars>>
    /\ UNCHANGED <<docs, target_form, populated_structures_cache, doc_idx,
                   final_aggregated, all_values_for_modal_keys, aggregated_lists,
                   proprietor_data, gemini_structure, error>>

InjectMapped ==
    /\ target_form # FormSchedE
    /\ pc = "inject"
    /\ gemini_structure' = Inject(gemini_structure, mapped_gemini_data)
    /\ pc' = "calculate"
    /\ UNCHANGED <<prop_col_map, next_col_idx, flowVars>>
    /\ UNCHANGED <<docs, target_form, populated_structures_cache, doc_idx,
                   final_aggregated, all_values_for_modal_keys, aggregated_lists,
                   proprietor_data, mapped_gemini_data, error>>

\* One document of the Schedule E aggregation loop.
AggregateSchedEDocument ==
    /\ pc = "aggregate"
    /\ target_form = FormSchedE
    /\ doc_idx <= Len(RelevantDocs(docs, target_form))
    /\ LET acc == SchedEDocument(
                    [map |-> prop_col_map, idx |-> next_col_idx,
                     final |-> final_aggregated],
                    RelevantDocs(docs, target_form)[doc_idx])
       IN  /\ prop_col_map' = acc.map
           /\ next_col_idx' = acc.idx
           /\ final_aggregated' = acc.final
    /\ doc_idx' = doc_idx + 1
    /\ UNCHANGED <<docs, target_form, populated_structures_cache, pc,
                   all_values_for_modal_keys, aggregated_lists, proprietor_data,
                   mapped_gemini_data, gemini_structure, error, flowVars>>

\* End of the Schedule E aggregation; the mapping step is skipped for this form.
FinalizeSchedEAggregation ==
    /\ pc = "aggregate"
    /\ target_form = FormSchedE
    /\ doc_idx > Len(RelevantDocs(docs, target_form))
    /\ pc' = "inject"
    /\ UNCHANGED <<docs, target_form, populated_structures_cache, doc_idx,
                   final_aggregated, all_values_for_modal_keys, aggregated_lists,
                   proprietor_data, mapped_gemini_data, gemini_structure, error,
                   prop_col_map, next_col_idx, flowVars>>

InjectSchedE ==
    /\ pc = "inject"
    /\ target_form = FormSchedE
    /\ gemini_structure' = SchedEInject(gemini_structure, final_aggregated)
    /\ pc' = "calculate"
    /\ UNCHANGED <<docs, target_form, populated_structures_cache, doc_idx,
                   final_aggregated, all_values_for_modal_keys, aggregated_lists,
                   proprietor_data, mapped_gemini_data, error, prop_col_map,
                   next_col_idx, flowVars>>

\* The calculation step; an exception leaves the lines already set and
\* ends the form as failed.
PerformCalculations ==
    /\ pc = "calculate"
    /\ LET result == _perform_calculations(gemini_structure, target_form,
                                           populated_structures_cache)
       IN  /\ gemini_structure' = result.structure
           /\ error' = result.error
           /\ pc' = IF result.error = "none" THEN "done" ELSE "failed"
    /\ UNCHANGED <<prop_col_map, next_col_idx, flowVars>>
    /\ UNCHANGED <<docs, target_form, populated_structures_cache, doc_idx,
                   final_aggregated, all_values_for_modal_keys, aggregated_lists,
                   proprietor_data, mapped_gemini_data>>

----------------------------------------------------------------------------
(* Specifications *)

\* The aggregator on the documents of a Form 1040 run.
InitAgg == \E ds \in Runs(AggDocPool) : Start(ds, Form1040, EmptyMap)

NextAgg == AggregateDocument \/ FinalizeAggregation

SpecAgg == InitAgg /\ [][NextAgg]_vars

\* A target form built from the run's documents, from blank structure to
\* calculated structure.
InitForm ==
    \E ds \in Runs(FormDocPool) : \E form \in {Form1040, FormSchedC} :
        /\ IsTargetForm(ds, form)
        /\ Start(ds, form, EmptyMap)

Next ==
    \/ AggregateDocument
    \/ FinalizeAggregation
    \/ MapAggregated
    \/ InjectMapped
    \/ PerformCalculations

Spec == InitForm /\ [][Next]_vars

\* Form 2441 built from child care statements and W-2s, from blank structure
\* to calculated structure (the calculation of this form does nothing).
ChildCareDocPool ==
    {[type |-> "Child Care Statement",
      data |-> ("DependentNameForCare" :> Str(T("X")))
               @@ ("ChildCareExpenses" :> Str(T("100")))],
     [type |-> "Child Care Statement",
      data |-> ("DependentNameForCare" :> Str(T("Y")))
               @@ ("DependentCareProviderName" :> Str(T("Z")))],
     [type |-> "Child Care Statement",
      data |-> ("ChildCareExpenses" :> Str(T("$1,000")))],
     [type |-> "W-2",
      data |-> ("EmployerProvidedDependentCareBenefits" :> Str(T("100")))
               @@ ("WagesTipsOtherComp" :> Str(T("50000")))]}

Init2441 == \E ds \in Runs(ChildCareDocPool) : Start(ds, Form2441, EmptyMap)

Spec2441 == Init2441 /\ [][Next]_vars

\* The Form 1040 calculation on an injected structure and a dependency cache.
Injected(value) == [value |-> value, sources |-> {DocPaths[1]}, sources_null |-> FALSE]

FilingStatusInputs ==
    {NullV, StrV(T("Single")), StrV(T("MarriedFilingJointly")),
     StrV(T("MarriedFilingSeparately")), StrV(T("HeadOfHousehold")),
     StrV(T("QualifyingWidow(er)")), StrV(T("X"))}

AgiInputs ==
    {NullV, NumV(Cents(10000)), NumV(Cents(50000)), NumV(Cents(120000)),
     NumV(Cents(400000))}

PaymentInputs == {NullV, StrV(T("$4,118")), NumV(Cents(5000)), NumV(Cents(100000))}

OtherLineInputs == {NullV, NumV(Cents(1000))}

ItemizedInputs == {0, Cents(8000), Cents(13850), Cents(20000), Cents(30000)}

CacheInputs ==
    {EmptyMap} \cup
    {("Schedule A" :>
        _set_field_value(BlankStructure(FormScheduleA),
                         "SchA_Line17_TotalItemizedDeductions", NumV(total)))
     : total \in ItemizedInputs}

InitCalc ==
    \E fs \in FilingStatusInputs, agi \in AgiInputs, pay \in PaymentInputs,
       l13 \in OtherLineInputs, l17 \in OtherLineInputs, l21 \in OtherLineInputs,
       l23 \in OtherLineInputs, cache \in CacheInputs :
        /\ docs = <<>>
        /\ target_form = Form1040
        /\ populated_structures_cache = cache
        /\ pc = "calculate"
        /\ doc_idx = 1
        /\ final_aggregated = EmptyMap
        /\ all_values_for_modal_keys = [k \in modal_keys(Form1040) |-> <<>>]
        /\ aggregated_lists = [k \in list_keys(Form1040) |-> <<>>]
        /\ proprietor_data = EmptyMap
        /\ mapped_gemini_data = EmptyMap
        /\ gemini_structure =
              [f \in TemplateFields(Form1040) |->
                  CASE f = "FilingStatus" /\ fs # NullV -> Injected(fs)
                    [] f = "Line11_AdjustedGrossIncome" /\ agi # NullV -> Injected(agi)
                    [] f = "Line33_TotalPayments" /\ pay # NullV -> Injected(pay)
                    [] f = "Line13_QualifiedBusinessIncomeDeduction" /\ l13 # NullV ->
                          Injected(l13)
                    [] f = "Line17_AmountFromSchedule2" /\ l17 # NullV -> Injected(l17)
                    [] f = "Line21_TotalNonrefundableCredits" /\ l21 # NullV ->
                          Injected(l21)
                    [] f = "Line23_OtherTaxes" /\ l23 # NullV -> Injected(l23)
                    [] OTHER -> BlankField]
        /\ error = "none"
        /\ prop_col_map = EmptyMap
        /\ next_col_idx = 0
        /\ NoDriver

NextCalc == PerformCalculations

SpecCalc == InitCalc /\ [][NextCalc]_vars

\* Documents of the Schedule E scenarios: properties with and without an
\* address, with and without rents.
SchedEDocPool ==
    {[type |-> "Cash Flow Statement",
      data |-> ("PropertyAddress" :> Str(T("X"))) @@ ("RentalIncome" :> Str(T("$1,000")))
               @@ ("InsuranceExpense" :> Str(T("100")))],
     [type |-> "Cash Flow Statement",
      data |-> ("PropertyAddress" :> Str(T("Y"))) @@ ("RentalIncome" :> Str(T("100")))
               @@ ("TotalOperatingExpenses" :> Str(T("100")))],
     [type |-> "Profit and Loss Statement",
      data |-> ("PropertyAddress" :> Str(T(" X "))) @@ ("AdvertisingExpense" :> Str(T("100")))],
     [type |-> "Cash Flow Statement",
      data |-> ("PropertyAddress" :> Str(T("Z"))) @@ ("InsuranceExpense" :> Str(T("100")))],
     [type |-> "Cash Flow Statement",
      data |-> ("PropertyAddress" :> Str(T("W"))) @@ ("RentalIncome" :> Str(T("100")))],
     [type |-> "Cash Flow Statement", data |-> ("RentalIncome" :> Str(T("100")))],
     [type |-> "Cash Flow Statement",
      data |-> ("PropertyAddress" :> Null) @@ ("RentalIncome" :> Str(T("100")))]}

SchedERuns ==
    UNION {{[i \in 1..n |-> [type |-> c[i].type, source |-> DocPaths[i],
                             data |-> c[i].data]] : c \in [1..n -> SchedEDocPool]}
           : n \in 0..MaxSchedEDocs}

\* Schedule E built from the run's documents.
InitSchedE == \E ds \in SchedERuns : Start(ds, FormSchedE, EmptyMap)

NextSchedE ==
    \/ AggregateSchedEDocument
    \/ FinalizeSchedEAggregation
    \/ InjectSchedE
    \/ PerformCalculations

SpecSchedE == InitSchedE /\ [][NextSchedE]_vars

\* The Schedule A calculation on an injected structure and a dependency cache
\* that holds Form 1040 or nothing.
ScheduleAAmountInputs == {NullV, NumV(Cents(3000)), NumV(Cents(8000))}

Form1040CacheInputs ==
    {EmptyMap} \cup
    {(Form1040 :>
        SetAll(BlankStructure(Form1040),
               << <<"Line11_AdjustedGrossIncome", agi>>, <<"FilingStatus", fs>> >>))
     : agi \in {NumV(Cents(0)), NumV(Cents(50000))},
       fs \in {StrV(T("Single")), StrV(T("MarriedFilingSeparately"))}}

InitSchedA ==
    \E med \in ScheduleAAmountInputs, l5a \in ScheduleAAmountInputs,
       l5b \in ScheduleAAmountInputs, l8a \in ScheduleAAmountInputs,
       l11 \in ScheduleAAmountInputs, cache \in Form1040CacheInputs :
        /\ docs = <<>>
        /\ target_form = FormScheduleA
        /\ populated_structures_cache = cache
        /\ pc = "calculate"
        /\ doc_idx = 1
        /\ final_aggregated = EmptyMap
        /\ all_values_for_modal_keys = EmptyMap
        /\ aggregated_lists = EmptyMap
        /\ proprietor_data = EmptyMap
        /\ mapped_gemini_data = EmptyMap
        /\ gemini_structure =
              [f \in TemplateFields(FormScheduleA) |->
                  CASE f = "SchA_Line1_MedicalDentalExpenses" /\ med # NullV -> Injected(med)
                    [] f = "SchA_Line5a_StateLocalTaxes" /\ l5a # NullV -> Injected(l5a)
                    [] f = "SchA_Line5b_RealEstateTaxes" /\ l5b # NullV -> Injected(l5b)
                    [] f = "SchA_Line8a_HomeMortgageInterest" /\ l8a # NullV ->
                          Injected(l8a)
                    [] f = "SchA_Line11_ContributionsCash" /\ l11 # NullV -> Injected(l11)
                    [] OTHER -> BlankField]
        /\ error = "none"
        /\ prop_col_map = EmptyMap
        /\ next_col_idx = 0
        /\ NoDriver

NextSchedA == PerformCalculations

SpecSchedA == InitSchedA /\ [][NextSchedA]_vars

----------------------------------------------------------------------------
(* The driver (tax_form_automation_flow) *)

\* create_populated_gemini_structure as the driver calls it: aggregation,
\* mapping, injection and calculation of one form on the grouped documents.
create_populated_gemini_structure(ds, form, cache) ==
    LET rel == RelevantDocs(ds, form)
        aggregate[i \in 0..Len(rel)] ==
            IF i = 0
            THEN [final |-> EmptyMap, modal |-> [k \in modal_keys(form) |-> <<>>],
                  lists |-> [k \in list_keys(form) |-> <<>>], prop |-> EmptyMap]
            ELSE ProcessDocument(aggregate[i - 1], form, rel[i])
        aggregate_e[i \in 0..Len(rel)] ==
            IF i = 0 THEN [map |-> EmptyMap, idx |-> 0, final |-> EmptyMap]
            ELSE SchedEDocument(aggregate_e[i - 1], rel[i])
        injected ==
            IF form = FormSchedE
            THEN SchedEInject(BlankStructure(form), aggregate_e[Len(rel)].final)
            ELSE Inject(BlankStructure(form),
                        _map_aggregated_to_gemini_fields(Finalize(aggregate[Len(rel)]),
                                                         form))
    IN  _perform_calculations(injected, form, cache)

InferredSource == "Inferred from populated fields by GeminiReviewPass"

\* A plausible slip: an inferred value replaces the value a field already has
ReviewOverwriting(populated_structure, inferred_values) ==
    [f \in DOMAIN populated_structure |->
        IF f \in DOMAIN inferred_values /\ Strip(inferred_values[f]) # <<>>
        THEN [value |-> StrV(Strip(inferred_values[f])),
              sources |-> {InferredSource}, sources_null |-> FALSE]
        ELSE populated_structure[f]]

\* review_and_repopulate_with_gemini, given the values the model inferred
\* (field name -> text; empty when the call is skipped or fails): only a
\* field without a value takes an inferred value, and only a non-empty one.
review_and_repopulate_with_gemini(populated_structure, inferred_values) ==
    IF \/ \A f \in DOMAIN populated_structure : populated_structure[f].value # NullV
       \/ \A f \in DOMAIN populated_structure : populated_structure[f].value = NullV
    THEN populated_structure
    ELSE [f \in DOMAIN populated_structure |->
            IF /\ f \in DOMAIN inferred_values
               /\ populated_structure[f].value = NullV
               /\ Strip(inferred_values[f]) # <<>>
            THEN [value |-> StrV(Strip(inferred_values[f])),
                  sources |-> {InferredSource}, sources_null |-> FALSE]
            ELSE populated_structure[f]]

\* Fields the review may name in its answer: one the pipeline fills and one
\* it leaves empty, per form
ReviewFields(form) ==
    CASE form = Form1040 -> {"Income_1z", "LastName"}
      [] form = FormSchedE -> {"SchedE_Line3_RentsReceivedA",
                               "SchedE_Line4_RoyaltiesReceivedA"}
      [] OTHER -> {}

\* Answers of the review: nothing inferred, or one field with a text
ReviewAnswers(form) ==
    {EmptyMap} \cup {f :> text : f \in ReviewFields(form), text \in {<<"X">>, <<" ">>}}

\* Per-form variables of create_populated_gemini_structure before the first form
NoForm ==
    /\ target_form = ""
    /\ doc_idx = 1
    /\ final_aggregated = EmptyMap
    /\ all_values_for_modal_keys = EmptyMap
    /\ aggregated_lists = EmptyMap
    /\ proprietor_data = EmptyMap
    /\ mapped_gemini_data = EmptyMap
    /\ gemini_structure = EmptyMap
    /\ error = "none"
    /\ prop_col_map = EmptyMap
    /\ next_col_idx = 0

formVars == <<target_form, doc_idx, final_aggregated, all_values_for_modal_keys,
              aggregated_lists, proprietor_data, mapped_gemini_data, gemini_structure,
              error, prop_col_map, next_col_idx>>

\* Step 3: the forms the run requires
DetermineTargetForms ==
    /\ pc = "targets"
    /\ target_forms' = TargetForms(docs)
    /\ pc' = "order"
    /\ UNCHANGED <<docs, populated_structures_cache, formVars, ordered_target_forms,
                   form_idx, results, flow_status, blank_fields, final_result,
                   intakeVars>>

\* The ordered list of targets, and the empty results and cache of the loop
OrderTargetForms ==
    /\ pc = "order"
    /\ ordered_target_forms' = OrderTargets(target_forms)
    /\ results' = EmptyMap
    /\ populated_structures_cache' = EmptyMap
    /\ flow_status' = "COMPLETED"
    /\ form_idx' = 1
    /\ pc' = "loop"
    /\ UNCHANGED <<docs, formVars, target_forms, blank_fields, final_result,
                   intakeVars>>

\* The loop stopped by the first form that is not processed
NextFormIndexBreakOnFailure(status) ==
    IF status = "PROCESSED" THEN form_idx + 1 ELSE Len(ordered_target_forms) + 1

\* The loop goes on to the next form whatever became of this one: `continue`
\* after a skip, no break in the except branch
NextFormIndex(status) == form_idx + 1

\* One iteration whose blank fields file does not exist
SkipForm ==
    /\ pc = "loop"
    /\ form_idx <= Len(ordered_target_forms)
    /\ LET form_type == ordered_target_forms[form_idx]
       IN  /\ blank_fields' = Put(blank_fields, form_type, "missing")
           /\ results' = Put(results, form_type,
                             [status |-> "SKIPPED", error |-> "Missing blank fields file"])
    /\ flow_status' = "COMPLETED_WITH_SKIPS"
    /\ form_idx' = NextFormIndex("SKIPPED")
    /\ UNCHANGED <<docs, populated_structures_cache, pc, formVars, target_forms,
                   ordered_target_forms, final_result,
                   intakeVars>>

\* One iteration whose blank fields file exists: structure, review, cache and
\* save, or the except branch.  The file may be unreadable and the result
\* file unwritable.  gemini_structure keeps populated_structure_initial as the
\* mapping task returned it.
ProcessForm ==
    /\ pc = "loop"
    /\ form_idx <= Len(ordered_target_forms)
    /\ \E readable \in BOOLEAN, writable \in BOOLEAN :
       \E inferred_values \in ReviewAnswers(ordered_target_forms[form_idx]) :
          LET form_type == ordered_target_forms[form_idx]
              initial == create_populated_gemini_structure(
                            docs, form_type, populated_structures_cache)
              final == review_and_repopulate_with_gemini(initial.structure,
                                                         inferred_values)
              failed(cause) == /\ results' = Put(results, form_type,
                                                 [status |-> "FAILED", error |-> cause])
                               /\ flow_status' = "FAILED"
          IN  /\ blank_fields' =
                    Put(blank_fields, form_type, IF readable THEN "ok" ELSE "unreadable")
              /\ gemini_structure' =
                    IF readable /\ initial.error = "none"
                    THEN initial.structure
                    ELSE gemini_structure
              /\ IF ~readable
                 THEN /\ failed("Failed to load blank structure")
                      /\ UNCHANGED populated_structures_cache
                 ELSE IF initial.error # "none"
                 THEN /\ failed(initial.error)
                      /\ UNCHANGED populated_structures_cache
                 ELSE /\ populated_structures_cache' =
                            Put(populated_structures_cache, form_type, final)
                      /\ IF writable
                         THEN /\ results' = Put(results, form_type,
                                                [status |-> "PROCESSED", error |-> "none"])
                              /\ UNCHANGED flow_status
                         ELSE failed("Failed to save populated structure")
    /\ form_idx' = NextFormIndex(results'[ordered_target_forms[form_idx]].status)
    /\ UNCHANGED <<docs, pc, target_forms, ordered_target_forms, final_result,
                   intakeVars>>
    /\ UNCHANGED <<target_form, doc_idx, final_aggregated, all_values_for_modal_keys,
                   aggregated_lists, proprietor_data, mapped_gemini_data, error,
                   prop_col_map, next_col_idx>>

\* After the loop: the summary is built and returned
ReturnSummary ==
    /\ pc = "loop"
    /\ form_idx > Len(ordered_target_forms)
    /\ final_result' = [status |-> flow_status, results_per_form |-> results]
    /\ pc' = "returned"
    /\ UNCHANGED <<docs, populated_structures_cache, formVars, target_forms,
                   ordered_target_forms, form_idx, results, flow_status, blank_fields,
                   intakeVars>>

\* Documents of the driver runs
FlowDocPool ==
    {[type |-> "W-2", data |-> ("WagesTipsOtherComp" :> Str(T("50000")))
                               @@ ("FederalIncomeTaxWithheld" :> Str(T("5000")))],
     [type |-> "W-2", data |-> ("WagesTipsOtherComp" :> Str(T("$120,000")))
                               @@ ("DependentName" :> Str(T("X")))],
     [type |-> "W-2", data |-> ("WagesTipsOtherComp" :> Str(T("10000")))
                               @@ ("MedicalExpenses" :> Str(T("5000")))
                               @@ ("AlimonyReceived" :> Str(T("2000")))],
     [type |-> "Profit and Loss Statement",
      data |-> ("TotalRevenue" :> Str(T("50000")))
               @@ ("CostOfGoodsSold" :> Str(T("5000")))],
     [type |-> "Cash Flow Statement",
      data |-> ("PropertyAddress" :> Str(T("X")))
               @@ ("RentalIncome" :> Str(T("$1,000")))
               @@ ("InsuranceExpense" :> Str(T("100")))],
     [type |-> "Child Care Statement",
      data |-> ("ChildCareExpenses" :> Str(T("3000")))
               @@ ("DependentCareProviderName" :> Str(DependentSSNText))]}

FlowRuns ==
    UNION {{[i \in 1..n |-> [type |-> c[i].type, source |-> DocPaths[i],
                             data |-> c[i].data]] : c \in [1..n -> FlowDocPool]}
           : n \in 1..MaxFlowDocs}

\* A run of the driver on classified and extracted documents, without
\* extraction errors
InitFlow ==
    /\ docs \in FlowRuns
    /\ pc = "targets"
    /\ populated_structures_cache = EmptyMap
    /\ NoForm
    /\ NoDriver

NextFlow ==
    \/ DetermineTargetForms
    \/ OrderTargetForms
    \/ SkipForm
    \/ ProcessForm
    \/ ReturnSummary

SpecFlow == InitFlow /\ [][NextFlow]_vars

\* The ordering step on the lists determine_target_forms can return, with
\* SchedE appended or not
TargetListInputs ==
    {SelectSeq(SortedFormNames, LAMBDA form : form \in targets \cup {Form1040})
        : targets \in SUBSET {SortedFormNames[i] : i \in 1..Len(SortedFormNames)}}
    \cup {Append(SelectSeq(SortedFormNames,
                           LAMBDA form : form \in targets \cup {Form1040}), FormSchedE)
            : targets \in SUBSET ({SortedFormNames[i] : i \in 1..Len(SortedFormNames)}
                                  \ {FormSchedE})}

InitOrder ==
    /\ docs = <<>>
    /\ pc = "order"
    /\ populated_structures_cache = EmptyMap
    /\ NoForm
    /\ ordered_target_forms = <<>>
    /\ form_idx = 0
    /\ results = EmptyMap
    /\ flow_status = "COMPLETED"
    /\ blank_fields = EmptyMap
    /\ final_result = EmptyMap
    /\ NoIntake
    /\ target_forms \in TargetListInputs

NextOrder == OrderTargetForms

SpecOrder == InitOrder /\ [][NextOrder]_vars

----------------------------------------------------------------------------
(* Steps 1 and 2 of the driver: classification and extraction *)

\* The closed list of document types the classifier may answer
standard_types ==
    <<"W-2", "1099-NEC", "1099-INT", "1099-DIV", "1099-MISC",
      "Profit and Loss Statement", "Balance Sheet", "Cash Flow Statement",
      "Invoice", "Receipt", "Bank Statement", "Insurance Policy", "Other">>

\* The characters of a document type name
TypeText(name) ==
    CASE name = "W-2" -> <<"W", "-", "2">>
      [] name = "1099-NEC" -> <<"1", "0", "9", "9", "-", "N", "E", "C">>
      [] name = "1099-INT" -> <<"1", "0", "9", "9", "-", "I", "N", "T">>
      [] name = "1099-DIV" -> <<"1", "0", "9", "9", "-", "D", "I", "V">>
      [] name = "1099-MISC" -> <<"1", "0", "9", "9", "-", "M", "I", "S", "C">>
      [] name = "Profit and Loss Statement" ->
            <<"P", "r", "o", "f", "i", "t", " ", "a", "n", "d", " ", "L", "o", "s", "s",
              " ", "S", "t", "a", "t", "e", "m", "e", "n", "t">>
      [] name = "Balance Sheet" ->
            <<"B", "a", "l", "a", "n", "c", "e", " ", "S", "h", "e", "e", "t">>
      [] name = "Cash Flow Statement" ->
            <<"C", "a", "s", "h", " ", "F", "l", "o", "w", " ", "S", "t", "a", "t", "e",
              "m", "e", "n", "t">>
      [] name = "Invoice" -> <<"I", "n", "v", "o", "i", "c", "e">>
      [] name = "Receipt" -> <<"R", "e", "c", "e", "i", "p", "t">>
      [] name = "Bank Statement" ->
            <<"B", "a", "n", "k", " ", "S", "t", "a", "t", "e", "m", "e", "n", "t">>
      [] name = "Insurance Policy" ->
            <<"I", "n", "s", "u", "r", "a", "n", "c", "e", " ", "P", "o", "l", "i", "c", "y">>
      [] name = "Other" -> <<"O", "t", "h", "e", "r">>

\* result_type in standard_types, and the member it is
StandardTypeOf(result_type) ==
    {standard_types[i] : i \in {j \in 1..Len(standard_types) :
                                    TypeText(standard_types[j]) = result_type}}

\* A plausible slip: an answer outside the list is passed on as it is
ClassificationAttemptUnvalidated(attempts, attempt) ==
    IF /\ attempts[1].kind = "response"
       /\ attempts[1].text # <<>>
       /\ StandardTypeOf(Strip(attempts[1].text)) = {}
    THEN "Unlisted"
    ELSE "Other"

\* One attempt of the retry loop and the attempts after it.  An attempt is an
\* API error, another error, or a response with a text (empty or not).
max_retries == 3

RECURSIVE ClassificationAttempt(_, _)
ClassificationAttempt(attempts, attempt) ==
    IF attempt > max_retries
    THEN "Other"
    ELSE LET answer == attempts[attempt]
         IN  IF answer.kind = "api_error"
             THEN IF attempt = max_retries
                  THEN "Other"
                  ELSE ClassificationAttempt(attempts, attempt + 1)
             ELSE IF answer.kind = "error"
             THEN "Other"
             ELSE IF answer.text = <<>>
             THEN "Other"
             ELSE IF StandardTypeOf(Strip(answer.text)) # {}
             THEN CHOOSE name \in StandardTypeOf(Strip(answer.text)) : TRUE
             ELSE "Other"

_call_gemini_for_classification(available, attempts) ==
    IF ~available THEN "Other" ELSE ClassificationAttempt(attempts, 1)

\* The task: result of the future, or the exception it holds
classify_document(env) ==
    IF ~env.libraries
    THEN [raised |-> FALSE, result |-> "Other"]
    ELSE IF ~env.image
    THEN [raised |-> FALSE, result |-> "Other"]
    ELSE IF env.raises
    THEN [raised |-> TRUE, result |-> ""]
    ELSE [raised |-> FALSE,
          result |-> _call_gemini_for_classification(TRUE, env.attempts)]

\* An error message, kept whole
Message(msg) == Str(<<msg>>)

\* A text item and a dictionary item of an extraction result
TextItem(text) == [is_dict |-> FALSE, dict |-> EmptyMap, text |-> text]
DictItem(dict) == [is_dict |-> TRUE, dict |-> dict, text |-> ""]

PageKeys == <<"page_1", "page_2", "page_3", "page_4">>

\* One page: the parsed answer with the classified type added, the error
\* dictionary of the page extractor, or the error dictionary written when
\* the page raises
PageResult(page, doc_type) ==
    IF page.raises
    THEN "error" :> Message("Failed to process page")
    ELSE IF "error" \in DOMAIN page.answer
    THEN page.answer
    ELSE IF "DocumentType" \in DOMAIN page.answer
    THEN page.answer
    ELSE Put(page.answer, "DocumentType", Str(TypeText(doc_type)))

extract_data_from_source_pdf(env, doc_type) ==
    IF ~env.exists
    THEN "error" :> TextItem("Source PDF file not found")
    ELSE IF ~env.converts
    THEN "error" :> TextItem("Failed PDF-to-image conversion")
    ELSE [key \in {PageKeys[i] : i \in 1..Len(env.pages)} |->
            DictItem(PageResult(
                env.pages[CHOOSE i \in 1..Len(env.pages) : PageKeys[i] = key],
                doc_type))]

\* Pages of the result that are dictionaries without an error
DataPages(extracted_page_data) ==
    {key \in DOMAIN extracted_page_data :
        /\ extracted_page_data[key].is_dict
        /\ "error" \notin DOMAIN extracted_page_data[key].dict}

\* Pages of the result that are dictionaries with an error
ErrorPages(extracted_page_data) ==
    {key \in DOMAIN extracted_page_data :
        /\ extracted_page_data[key].is_dict
        /\ "error" \in DOMAIN extracted_page_data[key].dict}

\* The data pages merged in page order, a later page overwriting an earlier one
RECURSIVE MergePages(_, _, _)
MergePages(extracted_page_data, i, merged) ==
    IF i > Len(PageKeys)
    THEN merged
    ELSE MergePages(extracted_page_data, i + 1,
                    IF PageKeys[i] \in DataPages(extracted_page_data)
                    THEN extracted_page_data[PageKeys[i]].dict @@ merged
                    ELSE merged)

\* Key of a page error and of a document error in extraction_errors
PageErrorKey(filename, page_num) == [name |-> filename, page |-> page_num]
DocumentErrorKey(doc_path) == [name |-> doc_path, page |-> ""]

\* The page errors of one document added to extraction_errors
WithPageErrors(errors, filename, extracted_page_data) ==
    [key \in {PageErrorKey(filename, p) : p \in ErrorPages(extracted_page_data)}
        |-> extracted_page_data[key.page].dict["error"]] @@ errors

\* setdefault(doc_type, []).append(...)
AppendByType(by_type, doc_type, document) ==
    Put(by_type, doc_type, Append(Get(by_type, doc_type, <<>>), document))

\* What the classifier meets: libraries present or not, first page rendered
\* or not, an exception outside the retry loop, and the answers of the attempts
AttemptAnswers ==
    {[kind |-> "api_error", text |-> <<>>],
     [kind |-> "error", text |-> <<>>],
     [kind |-> "response", text |-> <<>>],
     [kind |-> "response", text |-> <<" ", "W", "-", "2", " ">>],
     [kind |-> "response", text |-> <<"w", "-", "2">>]}

ClassifierBehaviours ==
    [libraries : BOOLEAN, image : BOOLEAN, raises : BOOLEAN,
     attempts : [1..max_retries -> AttemptAnswers]]

\* What the extractor meets: file present or not, conversion to images or
\* not, an exception reaching the driver, and the pages
PageAnswers ==
    {"WagesTipsOtherComp" :> Str(T("50000")),
     "error" :> Message("Failed to find valid JSON in Gemini response.")}

PageBehaviours == [raises : BOOLEAN, answer : PageAnswers]

ExtractorBehaviours ==
    [exists : BOOLEAN, converts : BOOLEAN, raises : BOOLEAN,
     pages : UNION {[1..n -> PageBehaviours] : n \in 0..MaxPages}]

\* The driver before the form steps has no form results
NoForms ==
    /\ target_forms = <<>>
    /\ ordered_target_forms = <<>>
    /\ form_idx = 0
    /\ results = EmptyMap
    /\ flow_status = "COMPLETED"
    /\ blank_fields = EmptyMap

\* Step 1, first loop: a path that does not exist is left out, a task is
\* submitted for every other path
SubmitClassification ==
    /\ pc = "submit"
    /\ path_idx <= Len(source_document_paths)
    /\ LET path == source_document_paths[path_idx]
       IN  IF ~path.exists
           THEN UNCHANGED <<valid_paths, classification_futures>>
           ELSE /\ valid_paths' = Append(valid_paths, path.path)
                /\ \E env \in ClassifierBehaviours :
                      classification_futures' =
                          Append(classification_futures, classify_document(env))
    /\ path_idx' = path_idx + 1
    /\ UNCHANGED <<pc, doc_path_to_type, extraction_errors, extracted_by_type,
                   extraction_results, final_result>>
    /\ UNCHANGED <<docs, populated_structures_cache, formVars, target_forms,
                   ordered_target_forms, form_idx, results, flow_status, blank_fields,
                   source_document_paths>>

\* No valid path: the run is aborted
AbortWithoutInput ==
    /\ pc = "submit"
    /\ path_idx > Len(source_document_paths)
    /\ valid_paths = <<>>
    /\ final_result' = [status |-> "FAILED", error |-> "No valid input files provided."]
    /\ pc' = "returned"
    /\ UNCHANGED <<path_idx, valid_paths, classification_futures, doc_path_to_type,
                   extraction_errors, extracted_by_type, extraction_results>>
    /\ UNCHANGED <<docs, populated_structures_cache, formVars, target_forms,
                   ordered_target_forms, form_idx, results, flow_status, blank_fields,
                   source_document_paths>>

\* Step 1, second loop: the results of the futures, "Other" for a task that raised
CollectClassifications ==
    /\ pc = "submit"
    /\ path_idx > Len(source_document_paths)
    /\ valid_paths # <<>>
    /\ doc_path_to_type' =
          [doc_path \in {valid_paths[i] : i \in 1..Len(valid_paths)} |->
              LET future == classification_futures[
                                CHOOSE i \in 1..Len(valid_paths) : valid_paths[i] = doc_path]
              IN  IF future.raised THEN "Other" ELSE future.result]
    /\ path_idx' = 1
    /\ pc' = "extract"
    /\ UNCHANGED <<valid_paths, classification_futures, extraction_errors,
                   extracted_by_type, extraction_results, final_result>>
    /\ UNCHANGED <<docs, populated_structures_cache, formVars, target_forms,
                   ordered_target_forms, form_idx, results, flow_status, blank_fields,
                   source_document_paths>>

\* Step 2: one iteration of the extraction loop
ExtractDocument ==
    /\ pc = "extract"
    /\ path_idx <= Len(valid_paths)
    /\ \E env \in ExtractorBehaviours :
          LET doc_path == valid_paths[path_idx]
              doc_type == Get(doc_path_to_type, doc_path, "Other")
              returned == extract_data_from_source_pdf(env, doc_type)
              current_document_data == MergePages(returned, 1, EmptyMap)
          IN  IF env.raises
              THEN /\ extraction_errors' =
                         Put(extraction_errors, DocumentErrorKey(doc_path),
                             Message("Outer extraction loop error"))
                   /\ extraction_results' =
                         Put(extraction_results, doc_path, [raised |-> TRUE,
                                                             value |-> EmptyMap])
                   /\ UNCHANGED extracted_by_type
              ELSE /\ extraction_errors' =
                         WithPageErrors(extraction_errors, doc_path, returned)
                   /\ extraction_results' =
                         Put(extraction_results, doc_path, [raised |-> FALSE,
                                                             value |-> returned])
                   /\ extracted_by_type' =
                         IF current_document_data # EmptyMap
                         THEN AppendByType(extracted_by_type, doc_type,
                                           [source |-> doc_path,
                                            data |-> current_document_data])
                         ELSE extracted_by_type
    /\ path_idx' = path_idx + 1
    /\ UNCHANGED <<pc, valid_paths, classification_futures, doc_path_to_type,
                   final_result>>
    /\ UNCHANGED <<docs, populated_structures_cache, formVars, target_forms,
                   ordered_target_forms, form_idx, results, flow_status, blank_fields,
                   source_document_paths>>

\* After the loop: no data at all and at least one recorded error aborts the run
AbortWithoutData ==
    /\ pc = "extract"
    /\ path_idx > Len(valid_paths)
    /\ extracted_by_type = EmptyMap
    /\ extraction_errors # EmptyMap
    /\ final_result' = [status |-> "FAILED", error |-> "Data extraction failed",
                        details |-> extraction_errors]
    /\ pc' = "returned"
    /\ UNCHANGED <<path_idx, valid_paths, classification_futures, doc_path_to_type,
                   extraction_errors, extracted_by_type, extraction_results>>
    /\ UNCHANGED <<docs, populated_structures_cache, formVars, target_forms,
                   ordered_target_forms, form_idx, results, flow_status, blank_fields,
                   source_document_paths>>

\* After the loop, otherwise: the run goes on to the form steps
FinishExtraction ==
    /\ pc = "extract"
    /\ path_idx > Len(valid_paths)
    /\ ~(extracted_by_type = EmptyMap /\ extraction_errors # EmptyMap)
    /\ pc' = "extracted"
    /\ UNCHANGED <<path_idx, valid_paths, classification_futures, doc_path_to_type,
                   extraction_errors, extracted_by_type, extraction_results,
                   final_result>>
    /\ UNCHANGED <<docs, populated_structures_cache, formVars, target_forms,
                   ordered_target_forms, form_idx, results, flow_status, blank_fields,
                   source_document_paths>>

InitIntake ==
    /\ \E n \in 1..MaxPaths :
          source_document_paths \in
              {[i \in 1..n |-> [path |-> DocPaths[i], exists |-> e[i]]]
                 : e \in [1..n -> BOOLEAN]}
    /\ pc = "submit"
    /\ path_idx = 1
    /\ valid_paths = <<>>
    /\ classification_futures = <<>>
    /\ doc_path_to_type = EmptyMap
    /\ extraction_errors = EmptyMap
    /\ extracted_by_type = EmptyMap
    /\ extraction_results = EmptyMap
    /\ final_result = EmptyMap
    /\ docs = <<>>
    /\ populated_structures_cache = EmptyMap
    /\ NoForm
    /\ NoForms

NextIntake ==
    \/ SubmitClassification
    \/ AbortWithoutInput
    \/ CollectClassifications
    \/ ExtractDocument
    \/ AbortWithoutData
    \/ FinishExtraction

SpecIntake == InitIntake /\ [][NextIntake]_vars

----------------------------------------------------------------------------
(* Properties of the aggregator (checked under SpecAgg) *)

RelDocs == RelevantDocs(docs, target_form)

Aggregated == pc = "map"

\* Relevant documents that carry a non-null value for the key
Contributing(k) ==
    {i \in 1..Len(RelDocs) : k \in DOMAIN RelDocs[i].data /\ ~RelDocs[i].data[k].null}

\* Relevant documents in which the key is present at all
KeyPresent(k) == {i \in 1..Len(RelDocs) : k \in DOMAIN RelDocs[i].data}

CleanedOf(i, k) == Strip(RelDocs[i].data[k].s)

ParsedOf(i, k) == SumParse(CleanedOf(i, k))

RECURSIVE SumOfParses(_, _)
SumOfParses(k, I) ==
    IF I = {} THEN 0
    ELSE LET i == CHOOSE x \in I : TRUE
         IN  (IF ParsedOf(i, k).ok THEN ParsedOf(i, k).n ELSE 0)
             + SumOfParses(k, I \ {i})

\* C1: for every SUM key the aggregated value is the sum of the numeric
\* parses of all contributing values; an unparseable value is skipped, leaves
\* the other contributions as they are and never stops the merge.
C1_SumOfParses ==
    /\ error = "none"
    /\ Aggregated =>
          \A k \in summable_keys(target_form) :
              /\ (k \in DOMAIN final_aggregated) <=> (Contributing(k) # {})
              /\ k \in DOMAIN final_aggregated =>
                    final_aggregated[k].value = NumV(SumOfParses(k, Contributing(k)))

\* An unparseable value before and after parseable, formatted ones.
C1_Witness ==
    /\ Aggregated
    /\ \E k \in summable_keys(target_form) : \E i, j, l \in Contributing(k) :
          /\ i < j /\ j < l
          /\ ParsedOf(i, k).ok /\ ~ParsedOf(j, k).ok /\ ParsedOf(l, k).ok
          /\ "$" \in {RelDocs[l].data[k].s[x] : x \in 1..Len(RelDocs[l].data[k].s)}
          /\ final_aggregated[k].value.n = ParsedOf(i, k).n + ParsedOf(l, k).n

\* The parse the accounting convention asks for: "(x)" is -x.
AccountingParse(cleaned) ==
    LET plain == RemoveChars(cleaned, {"$", ","})
    IN  IF Len(plain) >= 2 /\ plain[1] = "(" /\ plain[Len(plain)] = ")"
        THEN NumericLiteral(<<"-">> \o SubSeq(plain, 2, Len(plain) - 1))
        ELSE NumericLiteral(plain)

RECURSIVE SumOfAccountingParses(_, _)
SumOfAccountingParses(k, I) ==
    IF I = {} THEN 0
    ELSE LET i == CHOOSE x \in I : TRUE
             parsed == AccountingParse(CleanedOf(i, k))
         IN  (IF parsed.ok THEN parsed.n ELSE 0) + SumOfAccountingParses(k, I \ {i})

\* C2: in SUM aggregation a parenthesized value counts as negative, "(500)"
\* lowers the total by 500.
C2_ParenthesesNegative ==
    Aggregated =>
        \A k \in summable_keys(target_form) :
            k \in DOMAIN final_aggregated =>
                final_aggregated[k].value.n = SumOfAccountingParses(k, Contributing(k))

CountOf(k, v) == Cardinality({i \in Contributing(k) : CleanedOf(i, k) = v})

FirstOf(k, v) ==
    CHOOSE i \in Contributing(k) :
        /\ CleanedOf(i, k) = v
        /\ \A j \in Contributing(k) : CleanedOf(j, k) = v => i <= j

\* C3: for every MODE key the aggregated value is the most frequent cleaned
\* value, a tie goes to the value met first in document iteration order, and
\* sources is exactly the set of documents that reported the winning value.
C3_ModeFirstOnTie ==
    Aggregated =>
        \A k \in modal_keys(target_form) :
            /\ (k \in DOMAIN final_aggregated) <=> (Contributing(k) # {})
            /\ k \in DOMAIN final_aggregated =>
                  LET w == final_aggregated[k].value.s
                  IN  /\ final_aggregated[k].value.t = "str"
                      /\ \E i \in Contributing(k) : CleanedOf(i, k) = w
                      /\ \A j \in Contributing(k) :
                            \/ CountOf(k, CleanedOf(j, k)) < CountOf(k, w)
                            \/ /\ CountOf(k, CleanedOf(j, k)) = CountOf(k, w)
                               /\ FirstOf(k, w) <= j
                      /\ final_aggregated[k].sources =
                            {RelDocs[i].source : i \in
                                {j \in Contributing(k) : CleanedOf(j, k) = w}}

\* A later value wins by frequency over the first one, and a tie is decided
\* in another run; here: three candidates, the first one loses 1 to 2.
C3_Witness ==
    /\ Aggregated
    /\ \E k \in modal_keys(target_form) :
          /\ Cardinality(Contributing(k)) = 3
          /\ k \in DOMAIN final_aggregated
          /\ Cardinality(final_aggregated[k].sources) = 2
          /\ \E i \in Contributing(k) :
                /\ \A j \in Contributing(k) : i <= j
                /\ CleanedOf(i, k) # final_aggregated[k].value.s

\* Items the LIST branch is to hold for the documents of I, in document order
RECURSIVE ItemsOf(_, _, _)
ItemsOf(k, I, from) ==
    IF from > Len(RelDocs) THEN <<>>
    ELSE IF from \in I
    THEN <<[value |-> CleanedOf(from, k), source |-> RelDocs[from].source]>>
         \o ItemsOf(k, I, from + 1)
    ELSE ItemsOf(k, I, from + 1)

\* C4 as stated: for every LIST key the list has exactly one item per relevant
\* document in which the key is present, in encounter order, each with its own
\* document's source; with no such document the key is absent.
C4_OneItemPerKeyPresentDocument ==
    Aggregated =>
        \A k \in list_keys(target_form) :
            IF KeyPresent(k) = {} THEN k \notin DOMAIN final_aggregated
            ELSE /\ k \in DOMAIN final_aggregated
                 /\ Len(final_aggregated[k].value.items) = Cardinality(KeyPresent(k))

\* C4 as amended: one item per relevant document in which the key is present
\* with a non-null value, in encounter order, each with its own document's
\* source; the key is absent when no document holds a non-null value for it.
C4_OneItemPerNonNullDocument ==
    Aggregated =>
        \A k \in list_keys(target_form) :
            IF Contributing(k) = {} THEN k \notin DOMAIN final_aggregated
            ELSE /\ k \in DOMAIN final_aggregated
                 /\ final_aggregated[k].is_list
                 /\ final_aggregated[k].value = ListV(ItemsOf(k, Contributing(k), 1))

\* Two documents contribute items and a third holds the key with null.
C4_Witness ==
    /\ Aggregated
    /\ \E k \in list_keys(target_form) :
          /\ Cardinality(Contributing(k)) = 2
          /\ Cardinality(KeyPresent(k)) = 3
          /\ k \in DOMAIN final_aggregated
          /\ Len(final_aggregated[k].value.items) = 2

\* C5: every key present in the result has a non-empty sources set (a list
\* holds a source per item); a key without a usable value is absent.
C5_SourcesNeverEmpty ==
    Aggregated =>
        \A k \in DOMAIN final_aggregated :
            IF final_aggregated[k].is_list
            THEN final_aggregated[k].value.items # <<>>
            ELSE final_aggregated[k].sources # {}

IsEmptyValue(i, k) == RelDocs[i].data[k].null \/ CleanedOf(i, k) = <<>>

\* C6: a null or empty (also whitespace-only) value is dropped before the
\* merge: it is no MODE candidate, adds nothing to a SUM and its document is
\* not credited in sources.
C6_EmptyValuesDropped ==
    /\ \A k \in DOMAIN all_values_for_modal_keys :
          \A i \in 1..Len(all_values_for_modal_keys[k]) :
              all_values_for_modal_keys[k][i][1] # <<>>
    /\ Aggregated =>
          \A k \in (summable_keys(target_form) \cup modal_keys(target_form))
                   \cap DOMAIN final_aggregated :
              \A i \in KeyPresent(k) :
                  IsEmptyValue(i, k) =>
                      RelDocs[i].source \notin final_aggregated[k].sources

----------------------------------------------------------------------------
(* Properties of a form built from the documents (checked under Spec) *)

Field(name) == gemini_structure[name].value

OnlyDocumentIs(type, keys) ==
    /\ Len(docs) = 1
    /\ docs[1].type = type
    /\ DOMAIN docs[1].data = keys

DocAmount(key) ==
    IF key \in DOMAIN docs[1].data THEN StringAmount(docs[1].data[key].s) ELSE 0

\* C7: a run whose only document is a W-2 with wages W and federal withholding
\* H gives Form 1040 line 1z = W, line 9 = W and line 11 = W.
C7_W2Only1040Lines ==
    (/\ pc = "done"
     /\ target_form = Form1040
     /\ OnlyDocumentIs("W-2", {"WagesTipsOtherComp", "FederalIncomeTaxWithheld"}))
    => /\ Field("Income_1z") = NumV(DocAmount("WagesTipsOtherComp"))
       /\ Field("Line9_TotalIncome") = NumV(DocAmount("WagesTipsOtherComp"))
       /\ Field("Line11_AdjustedGrossIncome") = NumV(DocAmount("WagesTipsOtherComp"))

\* C8: with gross receipts R, returns T, cost of goods sold G and expenses
\* summing to E, Schedule C has line 3 = R - T, line 5 = R - T - G,
\* line 28 = E and line 31 = R - T - G - E.
C8_ScheduleCLines ==
    (/\ pc = "done"
     /\ target_form = FormSchedC
     /\ OnlyDocumentIs("Profit and Loss Statement",
                       {"GrossReceiptsOrSales", "TotalRevenue", "ReturnsAllowances",
                        "CostOfGoodsSold", "AdvertisingExpense", "OfficeExpense"}))
    => LET R == DocAmount("GrossReceiptsOrSales")
           Tr == DocAmount("ReturnsAllowances")
           G == DocAmount("CostOfGoodsSold")
           E == DocAmount("AdvertisingExpense") + DocAmount("OfficeExpense")
       IN  /\ Field("Line3_GrossProfit") = NumV(R - Tr)
           /\ Field("Line5_GrossIncome") = NumV(R - Tr - G)
           /\ Field("Line28_TotalExpenses") = NumV(E)
           /\ Field("Line31_NetProfitLoss") = NumV(R - Tr - G - E)

----------------------------------------------------------------------------
(* Properties of the Form 1040 calculation (checked under SpecCalc) *)

Calculated1040 == target_form = Form1040 /\ pc \in {"done", "failed"}

ScheduleACached == "Schedule A" \in DOMAIN populated_structures_cache

ItemizedTotal ==
    populated_structures_cache["Schedule A"]["SchA_Line17_TotalItemizedDeductions"].value.n

StandardDeduction == std_deduction(Field("FilingStatus"))

TotalTax == Field("Line24_TotalTax").n

TotalPayments == _get_numeric_value(gemini_structure, "Line33_TotalPayments")

AmountOwed == Field("Line37_AmountYouOwe").n

AmountOverpaid == Field("Line34_AmountOverpaid").n

\* C10 as stated: after Form 1040 is calculated exactly one of line 37 and
\* line 34 is positive and the other is 0.
C10_ExactlyOnePositive ==
    (target_form = Form1040 /\ pc = "done") =>
        \/ AmountOwed > 0 /\ AmountOverpaid = 0
        \/ AmountOverpaid > 0 /\ AmountOwed = 0

\* C10 as amended: at most one of line 37 and line 34 is positive and the
\* other is 0: line 37 = total tax - total payments when the tax is larger,
\* line 34 = total payments - total tax when the payments are larger, and
\* both are 0 when total tax equals total payments.
C10_AtMostOnePositive ==
    (target_form = Form1040 /\ pc = "done") =>
        /\ TotalTax > TotalPayments =>
              AmountOwed = TotalTax - TotalPayments /\ AmountOverpaid = 0
        /\ TotalPayments > TotalTax =>
              AmountOverpaid = TotalPayments - TotalTax /\ AmountOwed = 0
        /\ TotalTax = TotalPayments => AmountOwed = 0 /\ AmountOverpaid = 0

\* Payments above a positive total tax: an overpayment, nothing owed.
C10_Witness ==
    /\ target_form = Form1040
    /\ pc = "done"
    /\ TotalTax > 0
    /\ TotalPayments > TotalTax
    /\ AmountOverpaid > 0
    /\ AmountOwed = 0

----------------------------------------------------------------------------
(* Properties of the tax table (checked under SpecCalc) *)

\* The bands of the table a filing status uses: lower bound in dollars and
\* rate in percent.
TaxBands(filing_status) ==
    IF filing_status = StrV(Chars("MarriedFilingJointly"))
    THEN << <<0, 10>>, <<22000, 12>>, <<89450, 22>>, <<190750, 24>> >>
    ELSE << <<0, 10>>, <<11000, 12>>, <<44725, 22>>, <<95375, 24>> >>

\* Marginal-rate tax on an income in cents, in hundredths of a cent: every
\* band taxes the part of the income that lies inside it.
RECURSIVE MarginalTax(_, _, _)
MarginalTax(bands, i, income) ==
    IF i > Len(bands) \/ income <= Cents(bands[i][1]) THEN 0
    ELSE LET upper == IF i = Len(bands) THEN income
                      ELSE IF income < Cents(bands[i + 1][1]) THEN income
                      ELSE Cents(bands[i + 1][1])
         IN  (upper - Cents(bands[i][1])) * bands[i][2]
             + MarginalTax(bands, i + 1, income)

\* C11: for every filing status and every taxable income the Form 1040
\* calculation yields line 16, and line 16 is the marginal-rate tax on the
\* taxable income (the tax of the lower bands plus the band's rate on the
\* income above the band's lower bound).
C11_MarginalTaxDefined ==
    (target_form = Form1040 /\ pc \in {"done", "failed"}) =>
        /\ pc = "done"
        /\ Field("Line16_Tax") =
              NumV(Quantize(MarginalTax(TaxBands(Field("FilingStatus")), 1,
                                        Field("Line15_TaxableIncome").n)))

----------------------------------------------------------------------------
(* Properties of the Schedule A calculation (checked under SpecSchedA) *)

CalculatedScheduleA == target_form = FormScheduleA /\ pc \in {"done", "failed"}

\* Line 11 and the filing status of the return, as the dependency cache holds them
ReturnAgi ==
    IF Form1040 \in DOMAIN populated_structures_cache
    THEN _get_numeric_value(populated_structures_cache[Form1040],
                            "Line11_AdjustedGrossIncome")
    ELSE 0

ReturnFilingStatus ==
    IF Form1040 \in DOMAIN populated_structures_cache
    THEN _get_field_value(populated_structures_cache[Form1040], "FilingStatus")
    ELSE NullV

SchA(name) == _get_numeric_value(gemini_structure, name)

\* C12: a processed Schedule A has deductible medical = max(0, medical -
\* 7.5% of AGI), limited SALT = min(total SALT, 10000), or 5000 for married
\* filing separately, and line 17 = the sum of the category totals.
C12_ScheduleALines ==
    CalculatedScheduleA =>
        /\ pc = "done"
        /\ Field("SchA_Line4_DeductibleMedical") =
              NumV(Max(0, SchA("SchA_Line1_MedicalDentalExpenses")
                          - (ReturnAgi * 75) \div 1000))
        /\ Field("SchA_Line5e_LimitedSALT") =
              NumV(Min(SchA("SchA_Line5a_StateLocalTaxes")
                       + SchA("SchA_Line5b_RealEstateTaxes")
                       + SchA("SchA_Line5c_PersonalPropertyTaxes"),
                       IF ReturnFilingStatus = StrV(Chars("MarriedFilingSeparately"))
                       THEN Cents(5000) ELSE Cents(10000)))
        /\ Field("SchA_Line17_TotalItemizedDeductions") =
              NumV(SchA("SchA_Line4_DeductibleMedical") + SchA("SchA_Line7_TotalTaxes")
                   + SchA("SchA_Line10_TotalInterest")
                   + SchA("SchA_Line14_TotalContributions")
                   + SchA("SchA_Line15_CasualtyTheftLoss")
                   + SchA("SchA_Line16_OtherDeductions"))

----------------------------------------------------------------------------
(* Properties of Schedule E (checked under SpecSchedE) *)

CalculatedSchedE == target_form = FormSchedE /\ pc = "done"

SchedEAmount(base, col) == _get_numeric_value(gemini_structure, base \o col)

\* The injected lines of a column: rents, royalties and the expense lines
SchedEInputLines ==
    {SchedEExpenseLines[i] : i \in 1..Len(SchedEExpenseLines)}
    \cup {"SchedE_Line3_RentsReceived", "SchedE_Line4_RoyaltiesReceived"}

ColumnHoldsData(col) ==
    \E base \in SchedEInputLines : gemini_structure[base \o col].value # NullV

ColumnExpenses(col) == SumColumnLines(gemini_structure, SchedEExpenseLines, col)

ColumnIncomeLoss(col) ==
    (SchedEAmount("SchedE_Line3_RentsReceived", col)
     + SchedEAmount("SchedE_Line4_RoyaltiesReceived", col)) - ColumnExpenses(col)

RECURSIVE SumIncomeLoss(_)
SumIncomeLoss(cols) ==
    IF cols = <<>> THEN 0
    ELSE (IF ColumnHoldsData(Head(cols)) THEN ColumnIncomeLoss(Head(cols)) ELSE 0)
         + SumIncomeLoss(Tail(cols))

\* C13: for every Schedule E column that holds injected data, line 20 is the
\* sum of the column's expense lines, line 21 is (rents + royalties) - line 20,
\* and line 26 is the sum of line 21 over all such columns, a column with
\* expenses but no rents included.
C13_ScheduleEColumns ==
    CalculatedSchedE =>
        /\ \A i \in 1..Len(col_letters) :
              ColumnHoldsData(col_letters[i]) =>
                  /\ Field("SchedE_Line20_TotalExpenses" \o col_letters[i]) =
                        NumV(ColumnExpenses(col_letters[i]))
                  /\ Field("SchedE_Line21_IncomeLoss" \o col_letters[i]) =
                        NumV(ColumnIncomeLoss(col_letters[i]))
        /\ Field("SchedE_Line26_TotalIncomeLoss") = NumV(SumIncomeLoss(col_letters))

SchedEAggregated == target_form = FormSchedE /\ pc \in {"inject", "calculate", "done"}

\* The property of a document: its cleaned PropertyAddress, or its own source
\* identifier when it has no address value.
PropertyOf(doc) ==
    IF /\ "PropertyAddress" \in DOMAIN doc.data
       /\ ~doc.data["PropertyAddress"].null
       /\ Strip(doc.data["PropertyAddress"].s) # <<>>
    THEN [address |-> Strip(doc.data["PropertyAddress"].s), source |-> ""]
    ELSE [address |-> <<>>, source |-> doc.source]

\* Position of a document's property among the distinct properties, in
\* encounter order
PropertyRank(ds, i) ==
    Cardinality({PropertyOf(ds[j]) : j \in 1..i})

DistinctProperties(ds) == {PropertyOf(ds[j]) : j \in 1..Len(ds)}

RECURSIVE AccumulateProperty(_, _, _)
\* What the documents of one property accumulate, in encounter order
AccumulateProperty(prop_data, ds, property) ==
    IF ds = <<>> THEN prop_data
    ELSE AccumulateProperty(
            IF PropertyOf(Head(ds)) = property
            THEN SchedEKeys(prop_data, Head(ds), DOMAIN Head(ds).data)
            ELSE prop_data,
            Tail(ds), property)

\* C14: the first three distinct properties, in encounter order, take columns
\* A, B and C; the documents of a fourth or later property change no column;
\* the documents of one property accumulate into one column.
C14_FirstThreeProperties ==
    SchedEAggregated =>
        LET ds == RelDocs
            ranked == {i \in 1..Len(ds) :
                         /\ PropertyRank(ds, i) <= Len(col_letters)
                         /\ \A j \in 1..(i - 1) : PropertyOf(ds[j]) # PropertyOf(ds[i])}
        IN  /\ DOMAIN final_aggregated =
                  {col_letters[PropertyRank(ds, i)] : i \in ranked}
            /\ \A i \in ranked :
                  final_aggregated[col_letters[PropertyRank(ds, i)]] =
                      AccumulateProperty(EmptyMap, ds, PropertyOf(ds[i]))

HasNoAddress(doc) == PropertyOf(doc).source # ""

\* The columns in which a document is credited as a source
ColumnsCrediting(doc) ==
    {col \in DOMAIN final_aggregated :
        \E k \in DOMAIN final_aggregated[col] :
            doc.source \in final_aggregated[col][k].sources}

\* C15: two different documents without a PropertyAddress value are two
\* properties: while columns are left, they are assigned different columns.
C15_SourceIdentifiesProperty ==
    (SchedEAggregated /\ Cardinality(DistinctProperties(RelDocs)) <= Len(col_letters)) =>
        \A i, j \in 1..Len(RelDocs) :
            (i # j /\ HasNoAddress(RelDocs[i]) /\ HasNoAddress(RelDocs[j])) =>
                /\ ColumnsCrediting(RelDocs[i]) # {}
                /\ ColumnsCrediting(RelDocs[j]) # {}
                /\ ColumnsCrediting(RelDocs[i]) \cap ColumnsCrediting(RelDocs[j]) = {}

----------------------------------------------------------------------------
(* Properties of the name split (checked under Spec) *)

Mapped1040 == target_form = Form1040 /\ pc \in {"inject", "calculate", "done", "failed"}

NameIsAggregated ==
    /\ "EmployeeName" \in DOMAIN final_aggregated
    /\ ~final_aggregated["EmployeeName"].is_list

\* The text before and the text after the first whitespace run of a name
TextBeforeFirstRun(full_name) ==
    IF SplitMax1(full_name) = <<>> THEN <<>> ELSE SplitMax1(full_name)[1]

TextAfterFirstRun(full_name) ==
    IF Len(SplitMax1(full_name)) < 2 THEN <<>> ELSE Strip(SplitMax1(full_name)[2])

\* C16: the Form 1040 mapper splits an aggregated full name on its first
\* whitespace run: FirstNameInitial is the text before the run, LastName the
\* text after it, and both carry exactly the sources of the aggregated name.
C16_NameSplit ==
    (Mapped1040 /\ NameIsAggregated) =>
        LET name == final_aggregated["EmployeeName"]
        IN  /\ {"FirstNameInitial", "LastName"} \subseteq DOMAIN mapped_gemini_data
            /\ mapped_gemini_data["FirstNameInitial"].value =
                  StrV(TextBeforeFirstRun(name.value.s))
            /\ mapped_gemini_data["LastName"].value =
                  StrV(TextAfterFirstRun(name.value.s))
            /\ mapped_gemini_data["FirstNameInitial"].sources = name.sources
            /\ mapped_gemini_data["LastName"].sources = name.sources

----------------------------------------------------------------------------
(* Properties of the driver (checked under SpecFlow) *)

TargetsDetermined == pc \in {"order", "loop", "returned"}

IsTarget(form) == \E i \in 1..Len(target_forms) : target_forms[i] = form

\* The indicator keys of a form, and the document types they count in
IndicatorKeys(form) ==
    CASE form = FormSchedC -> sched_c_indicator_keys
      [] form = FormSchedE -> schedule_e_indicator_keys
      [] form = FormSchedule1 -> schedule_1_indicator_keys
      [] form = FormSchedule2 -> schedule_2_indicator_keys
      [] form = FormSchedule3 -> schedule_3_indicator_keys
      [] form = Form2441 -> form_2441_indicator_keys
      [] form = Form8812 -> {"DependentName", "DependentSSN"}
      [] form = FormScheduleA -> schedule_a_indicator_keys
      [] OTHER -> {}

IndicatorCounts(form, doc_type) ==
    CASE form = FormSchedC ->
            doc_type \in {"Profit and Loss Statement", "Invoice", "Receipt", "1099-NEC"}
      [] form = FormSchedE ->
            doc_type \in {"Cash Flow Statement", "Profit and Loss Statement"}
      [] OTHER -> TRUE

IndicatorPresent(form) ==
    \E i \in 1..Len(docs) :
        /\ IndicatorCounts(form, docs[i].type)
        /\ DOMAIN docs[i].data \cap IndicatorKeys(form) # {}

\* C17: every form one of whose indicator keys is present in a document of
\* the run is a target of the run, and 1040-SE is a target whenever
\* Schedule C is.
C17_IndicatedFormsAreTargets ==
    TargetsDetermined =>
        /\ \A i \in 1..Len(SortedFormNames) :
              IndicatorPresent(SortedFormNames[i]) => IsTarget(SortedFormNames[i])
        /\ IsTarget(FormSchedC) => IsTarget(Form1040SE)

----------------------------------------------------------------------------
(* Properties of the processing order (checked under SpecOrder) *)

Ordered == pc = "loop"

IsOrderedTarget(form) ==
    \E i \in 1..Len(ordered_target_forms) : ordered_target_forms[i] = form

Position(form) == CHOOSE i \in 1..Len(ordered_target_forms) : ordered_target_forms[i] = form

AllForms == {SortedFormNames[i] : i \in 1..Len(SortedFormNames)}

\* Every target is processed, and processed once
OrderedTargetsAreTheTargets ==
    /\ Len(ordered_target_forms) = Len(target_forms)
    /\ \A form \in AllForms : IsOrderedTarget(form) <=> IsTarget(form)

\* The stages of the order as stated: C/E, SE, Schedule 1, Schedule 2/3,
\* Form 2441/8812/Schedule A, Form 1040
StatedStage(form) ==
    CASE form \in {FormSchedC, FormSchedE} -> 1
      [] form = Form1040SE -> 2
      [] form = FormSchedule1 -> 3
      [] form \in {FormSchedule2, FormSchedule3} -> 4
      [] form \in {Form2441, Form8812, FormScheduleA} -> 5
      [] form = Form1040 -> 6

FixedRank(form) ==
    CASE form = FormSchedC -> 1
      [] form = FormSchedE -> 2
      [] form = Form1040SE -> 3
      [] form = FormSchedule1 -> 4
      [] form = FormSchedule2 -> 5
      [] form = Form2441 -> 6
      [] form = FormSchedule3 -> 7
      [] form = Form8812 -> 8
      [] form = FormScheduleA -> 9
      [] form = Form1040 -> 10

----------------------------------------------------------------------------
(* Properties of the dependency cache (checked under SpecSchedA) *)

OrderIndex(form) ==
    CHOOSE i \in 1..Len(PROCESSING_ORDER) : PROCESSING_ORDER[i] = form

\* The cache entries of the forms that precede a form in the processing order
PrecedingCache(cache, form) ==
    [f \in {g \in DOMAIN cache : InOrder(g) /\ OrderIndex(g) < OrderIndex(form)} |->
        cache[f]]

\* C19: the calculation of a form reads the cache only for forms that precede
\* it in the processing order: the entries of later forms make no difference
\* to what it computes.
C19_ReadsPrecedingFormsOnly ==
    (target_form = FormScheduleA /\ pc = "calculate") =>
        _perform_calculations(gemini_structure, target_form, populated_structures_cache)
        = _perform_calculations(gemini_structure, target_form,
                                PrecedingCache(populated_structures_cache, target_form))

----------------------------------------------------------------------------
(* Properties of the form loop (checked under SpecFlow) *)

InLoop == pc \in {"loop", "returned"}

\* The forms whose iteration is over
Attempted == {ordered_target_forms[i] : i \in 1..Len(ordered_target_forms)} \cap
             DOMAIN results

\* The mapping task of a form raises or returns an error: its blank fields
\* file cannot be read, or its calculation raises
StepRaises(form) ==
    \/ blank_fields[form] = "unreadable"
    \/ /\ blank_fields[form] = "ok"
       /\ create_populated_gemini_structure(
              docs, form, PrecedingCache(populated_structures_cache, form)).error
          # "none"

\* C20: a form whose blank template is missing is recorded as skipped and a
\* form whose step raises as failed; the forms after it are attempted all
\* the same, and the driver returns a summary of every target form.
C20_FaultIsolation ==
    InLoop =>
        /\ Attempted = {ordered_target_forms[i] : i \in 1..(form_idx - 1)}
        /\ \A form \in Attempted :
              /\ blank_fields[form] = "missing" => results[form].status = "SKIPPED"
              /\ StepRaises(form) => results[form].status = "FAILED"
        /\ pc = "returned" =>
              /\ form_idx = Len(ordered_target_forms) + 1
              /\ final_result = [status |-> flow_status, results_per_form |-> results]

\* A skipped form and a failed form, each followed by a form that was attempted
C20_Witness ==
    /\ pc = "returned"
    /\ \E i, j, k \in 1..Len(ordered_target_forms) :
          /\ i < j /\ j < k
          /\ results[ordered_target_forms[i]].status = "SKIPPED"
          /\ results[ordered_target_forms[j]].status = "FAILED"
          /\ blank_fields[ordered_target_forms[j]] = "unreadable"
          /\ results[ordered_target_forms[k]].status = "PROCESSED"

----------------------------------------------------------------------------
(* Properties of classification and extraction (checked under SpecIntake) *)

\* The documents the extraction loop has visited
Extracted == DOMAIN extraction_results

\* The extractor gave up on the whole document: its result holds an error
\* text where the pages would be
WholeDocumentFailure(doc_path) ==
    /\ ~extraction_results[doc_path].raised
    /\ "error" \in DOMAIN extraction_results[doc_path].value
    /\ ~extraction_results[doc_path].value["error"].is_dict

PageFailure(doc_path) ==
    /\ ~extraction_results[doc_path].raised
    /\ ErrorPages(extraction_results[doc_path].value) # {}

ExtractionFailed(doc_path) ==
    \/ extraction_results[doc_path].raised
    \/ WholeDocumentFailure(doc_path)
    \/ PageFailure(doc_path)

HasExtractionError(doc_path) ==
    \E key \in DOMAIN extraction_errors : key.name = doc_path

\* C21: every document whose extraction failed (a page error, a failure of
\* the whole document, or an exception) has an entry in extraction_errors,
\* and every form recorded as SKIPPED or FAILED has an error in its result.
C21_FailuresInSummary ==
    /\ \A doc_path \in Extracted :
          ExtractionFailed(doc_path) => HasExtractionError(doc_path)
    /\ \A form \in DOMAIN results :
          results[form].status \in {"SKIPPED", "FAILED"} => results[form].error # "none"

\* The closed list as a set
StandardTypes == {standard_types[i] : i \in 1..Len(standard_types)}

\* C22: every classification task that returns gives a member of the closed
\* list, and once the results are collected every valid document has a type
\* of the list, "Other" when its task raised; the run goes on to extraction.
C22_ClassificationNeverFails ==
    /\ \A i \in 1..Len(classification_futures) :
          ~classification_futures[i].raised
             => classification_futures[i].result \in StandardTypes
    /\ pc \in {"extract", "extracted"} =>
          /\ DOMAIN doc_path_to_type = {valid_paths[i] : i \in 1..Len(valid_paths)}
          /\ \A i \in 1..Len(valid_paths) :
                /\ doc_path_to_type[valid_paths[i]] \in StandardTypes
                /\ classification_futures[i].raised
                      => doc_path_to_type[valid_paths[i]] = "Other"
                /\ ~classification_futures[i].raised
                      => doc_path_to_type[valid_paths[i]] = classification_futures[i].result
    /\ final_result # EmptyMap /\ valid_paths # <<>>
          => final_result.error = "Data extraction failed"

\* A run where one task raised and another answered "W-2", and extraction
\* has started
C22_Witness ==
    /\ pc = "extract"
    /\ \E i \in 1..Len(classification_futures) : classification_futures[i].raised
    /\ \E i \in 1..Len(classification_futures) :
          /\ ~classification_futures[i].raised
          /\ classification_futures[i].result = "W-2"
    /\ path_idx > 1

----------------------------------------------------------------------------
(* Properties of the review pass (checked under SpecFlow) *)

\* The form of the last iteration went through the review pass:
\* gemini_structure is its structure before the pass, its cache entry the
\* structure after the pass
LastForm == ordered_target_forms[form_idx - 1]

Reviewed ==
    /\ pc = "loop"
    /\ form_idx > 1
    /\ LastForm \in DOMAIN populated_structures_cache

\* C23: a field that has a value before the review pass has the same value
\* and sources after it; only fields whose value is null are changed.
C23_ReviewKeepsPopulatedFields ==
    Reviewed =>
        /\ DOMAIN populated_structures_cache[LastForm] = DOMAIN gemini_structure
        /\ \A f \in DOMAIN gemini_structure :
              gemini_structure[f].value # NullV
                 => populated_structures_cache[LastForm][f] = gemini_structure[f]

\* The pass filled a null field of a structure that holds populated fields
C23_Witness ==
    /\ Reviewed
    /\ \E f \in DOMAIN gemini_structure :
          /\ gemini_structure[f].value = NullV
          /\ populated_structures_cache[LastForm][f].value # NullV
          /\ populated_structures_cache[LastForm][f].sources = {InferredSource}
    /\ \E f \in DOMAIN gemini_structure : gemini_structure[f].value # NullV

----------------------------------------------------------------------------
(* Provenance of the fields of a processed form (checked under Spec2441) *)

\* C24: after aggregation, mapping, injection and calculation, every field
\* with a non-null value has a non-empty sources list.
C24_ValuesHaveSources ==
    pc = "done" =>
        \A f \in DOMAIN gemini_structure :
            gemini_structure[f].value # NullV
               => /\ ~gemini_structure[f].sources_null
                  /\ gemini_structure[f].sources # {}

\* The structure as injection leaves it, before the calculation
InjectionDone == pc = "calculate"

\* Mapping and injection run once more from a fresh blank template
InjectedAgain ==
    Inject(BlankStructure(target_form),
           _map_aggregated_to_gemini_fields(final_aggregated, target_form))

\* C25: injection sets value and sources on every template field named by
\* the mapper's output and leaves every other field with value and sources
\* null; mapping and injection run again from a fresh blank template on the
\* same aggregated input give the same structure.
C25_InjectionSetsMappedFields ==
    InjectionDone =>
        /\ \A f \in DOMAIN gemini_structure :
              IF f \in DOMAIN mapped_gemini_data
              THEN /\ gemini_structure[f].value = mapped_gemini_data[f].value
                   /\ ~gemini_structure[f].sources_null
              ELSE /\ gemini_structure[f].value = NullV
                   /\ gemini_structure[f].sources_null
        /\ InjectedAgain = gemini_structure

----------------------------------------------------------------------------
(* Properties of the dependency cache in a run (checked under SpecFlow) *)

\* No form type appears twice in the list the loop iterates over
EachFormOnce ==
    \A i, j \in 1..Len(ordered_target_forms) :
        ordered_target_forms[i] = ordered_target_forms[j] => i = j

\* Every cache entry belongs to a form whose iteration is over
CachedInOrder ==
    InLoop =>
        \A form \in DOMAIN populated_structures_cache :
            \E i \in 1..(form_idx - 1) : ordered_target_forms[i] = form

\* One step of the loop: the entries already written stay as they are, and
\* the only entry a step may add is the entry of the form of this iteration
CacheStep ==
    pc = "loop" =>
        /\ \A form \in DOMAIN populated_structures_cache :
              /\ form \in DOMAIN populated_structures_cache'
              /\ populated_structures_cache'[form] = populated_structures_cache[form]
        /\ \A form \in DOMAIN populated_structures_cache' :
              form \notin DOMAIN populated_structures_cache
                 => /\ form_idx <= Len(ordered_target_forms)
                    /\ form = ordered_target_forms[form_idx]
                    /\ form_idx' = form_idx + 1

\* C26: each form type is processed at most once and its cache entry is
\* written at most once, in processing order; a later form never adds,
\* replaces or modifies the entry of another form.
C26_CacheWrittenOncePerForm ==
    /\ [](EachFormOnce /\ CachedInOrder)
    /\ [][CacheStep]_vars

\* A run that cached two forms, the second one after the first
C26_Witness ==
    /\ pc = "returned"
    /\ \E i, j \in 1..Len(ordered_target_forms) :
          /\ i < j
          /\ ordered_target_forms[i] \in DOMAIN populated_structures_cache
          /\ ordered_target_forms[j] \in DOMAIN populated_structures_cache
          /\ results[ordered_target_forms[j]].status = "PROCESSED"

----------------------------------------------------------------------------
(* Properties of the run status (checked under SpecFlow) *)

\* C27: once a form is recorded as FAILED the status of the run summary is
\* FAILED, whatever happens to the forms after it.
C27_FailedIsFinal ==
    pc = "returned" =>
        ((\E form \in DOMAIN results : results[form].status = "FAILED")
            => final_result.status = "FAILED")

\* C28: a form recorded as SKIPPED or FAILED has no entry in the dependency
\* cache, also when it is FAILED because its result could not be saved.
C28_NoCacheEntryUnlessProcessed ==
    \A form \in DOMAIN results :
        results[form].status \in {"SKIPPED", "FAILED"}
           => form \notin DOMAIN populated_structures_cache

----------------------------------------------------------------------------
(* Form 1040 in a run (checked under SpecFlow) *)

\* C29: Form 1040 is a target of every run that reaches the form loop,
\* whatever the documents contain, and it is the last form of the loop.
C29_Form1040IsLastTarget ==
    InLoop =>
        /\ \E i \in 1..Len(target_forms) : target_forms[i] = Form1040
        /\ Len(ordered_target_forms) >= 1
        /\ ordered_target_forms[Len(ordered_target_forms)] = Form1040
        /\ Form1040 \in DOMAIN results => form_idx = Len(ordered_target_forms) + 1

\* A finished run of three forms in which Form 1040 was processed after a
\* schedule whose target was appended behind it
C29_Witness ==
    /\ pc = "returned"
    /\ Len(ordered_target_forms) = 3
    /\ target_forms[Len(target_forms)] = FormSchedE
    /\ results[Form1040].status = "PROCESSED"
    /\ results[FormSchedE].status = "PROCESSED"

----------------------------------------------------------------------------
(* Injection of the Schedule E amounts (checked under SpecSchedE) *)

\* The template field of a column that an accumulated key stands for: the
\* key followed by the column letter; the key of TotalOperatingExpenses
\* stands for line 19 of the column
ColumnField(key, col) ==
    IF key = expense_map["TotalOperatingExpenses"]
    THEN "SchedE_Line19_OtherExpense" \o col
    ELSE key \o col

\* C30: every amount accumulated for an assigned property column (rents and
\* each mapped expense, TotalOperatingExpenses included) is the value of the
\* column's field in the processed structure when the template has the field.
C30_AccumulatedAmountsInjected ==
    CalculatedSchedE =>
        \A col \in DOMAIN final_aggregated :
            \A key \in DOMAIN final_aggregated[col] :
                ColumnField(key, col) \in DOMAIN gemini_structure
                   => gemini_structure[ColumnField(key, col)].value
                      = final_aggregated[col][key].value

====
